---- MODULE Spec2Model ----
(***************************************************************************)
(* Model of dataforge's solution verifier                                  *)
(* (src/generated-datasets/verify_solution.py).                            *)
(*                                                                         *)
(* Python strings are sequences of one-character strings, so that lower(), *)
(* startswith(), slicing and the `in` test are computed, not assumed.      *)
(* A value loaded from task.yaml is a record [ty, v]: ty is its Python     *)
(* type and v is str(value).                                               *)
(***************************************************************************)
EXTENDS Integers, Sequences, FiniteSets, TLC

VARIABLES
    task_yaml,  \* self.task_yaml: [difficulty, canary, checks]
    fs,         \* the files the checks can name: resolved path -> entry
    results,    \* self.results
    pc,         \* position of the running operation
    idx,        \* loop index of _run_automated_checks (0: loop not entered)
    exc,        \* the exception that ended the operation, or NoExc
    summary,    \* the return value of _calculate_score, or NoSummary
    arg,        \* arguments of the last _execute_check call
    proc,       \* what subprocess.run did in the last _execute_check call
    ret,        \* return value of the last _execute_check call
    scanned,    \* the files _check_canary_token has read, in order
    \* main() of verify_solution.py
    cli,        \* what main() was started on, and its position
    cli_exit,   \* the code main() exited with, or NoExit
    history,    \* what the earlier verify() calls and runs of main() returned
    \* SecurityVerifier (verification/verify_fixes.py) and its main()
    base_files,   \* the files under self.base_path: relative path -> entry
    checks,       \* self.checks
    outcomes,     \* self.outcomes
    score,        \* the return value of calculate_score in main(), or NoScore
    exit_code,    \* the code main() exited with, or NoExit
    audit_pc,     \* position of main()
    audit_exc,    \* the exception that ended main(), or "none"
    \* the benchmark orchestrator (scripts/benchmark_evaluation.py)
    api_key,          \* OPENROUTER_API_KEY is set
    bench_pc,         \* position of main()
    loop_i,           \* i, the loop index of the running phase of main()
    generated,        \* what the generate collaborator did, per category
    generate_returns, \* the return value of generate_tasks, per category
    batch_dirs,       \* the batch directories that exist under OUTPUT_DIR
    tasks_generated,  \* tasks_generated of main()
    evaluated,        \* what the evaluate collaborator did, per invocation
    all_results,      \* all_results of main()
    analyzed,         \* the records handed to analyze_results, or NotAnalyzed
    bench_exit,       \* the code main() exited with, or NoExit
    bench_exc,        \* the exception that ended main(), or "none"
    report,           \* the EvaluationReport of analyze_results, or NoReport
    \* auto_publish.py
    output_dir,   \* the regular files under OUTPUT_DIR, each as its path
    pub_pc,       \* position of main() and upload_tasks()
    new_tasks,    \* new_tasks of the running upload_tasks()
    task_k,       \* position of the loop over new_tasks
    commits,      \* the create_commit calls made so far
    cycle         \* the publish cycles started so far

verifyVars ==
    <<task_yaml, fs, results, pc, idx, exc, summary, arg, proc, ret, scanned>>

auditVars ==
    <<base_files, checks, outcomes, score, exit_code, audit_pc, audit_exc>>

benchVars ==
    <<api_key, bench_pc, loop_i, generated, generate_returns, batch_dirs,
      tasks_generated, evaluated, all_results, analyzed, bench_exit, bench_exc,
      report>>

cliVars == <<cli, cli_exit, history>>

publishVars == <<output_dir, pub_pc, new_tasks, task_k, commits, cycle>>

vars == <<verifyVars, cliVars, auditVars, benchVars, publishVars>>

-----------------------------------------------------------------------------
(* Bounds *)

\* longest automated_checks list of a task descriptor in a verify() run
MaxChecks == 3
\* longest outcome list, of every shape, handed to _calculate_score
MaxOutcomes == 4
\* outcome lists of p passed then f failed entries: p <= MaxPassed, f <= MaxFailed
MaxPassed == 142
MaxFailed == 61

-----------------------------------------------------------------------------
(* Python strings *)

Min(a, b) == IF a < b THEN a ELSE b

\* str.lower() on one character
LowerChar(c) ==
    CASE c = "T" -> "t" [] c = "R" -> "r" [] c = "U" -> "u" [] c = "E" -> "e"
      [] c = "F" -> "f" [] c = "A" -> "a" [] c = "L" -> "l" [] c = "S" -> "s"
      [] c = "K" -> "k" [] c = "N" -> "n" [] c = "O" -> "o"
      [] OTHER -> c

\* s.lower()
Lower(s) == [i \in 1..Len(s) |-> LowerChar(s[i])]

\* s[:n]
Prefix(s, n) == SubSeq(s, 1, Min(n, Len(s)))

\* s.startswith(p)
StartsWith(s, p) == Len(p) <= Len(s) /\ SubSeq(s, 1, Len(p)) = p

\* sub in s
Contains(s, sub) ==
    \E i \in 0..(Len(s) - Len(sub)) : SubSeq(s, i + 1, i + Len(sub)) = sub

\* str(b) for a bool
StrBool(b) == IF b THEN <<"T", "r", "u", "e">> ELSE <<"F", "a", "l", "s", "e">>

-----------------------------------------------------------------------------
(* Values of a loaded task.yaml *)

PyStr(s) == [ty |-> "str", v |-> s]
PyBool(b) == [ty |-> "bool", v |-> StrBool(b)]
PyInt == [ty |-> "int", v |-> <<"7">>]
PyNone == [ty |-> "NoneType", v |-> <<"N", "o", "n", "e">>]

\* value[:n] works on str (list, tuple); int, bool and None are not subscriptable
Subscriptable(x) == x.ty = "str"

-----------------------------------------------------------------------------
(* The solution tree and the other files a target can name *)

NoFile == [kind |-> "none", content |-> <<>>]
File(c) == [kind |-> "file", content |-> c]
\* a directory: exists() is true, is_file() is false, read_text() raises
Dir == [kind |-> "dir", content |-> <<>>]

\* the canary token of the task
Canary == <<"K">>

Contents ==
    { <<>>,
      <<"T", "R", "U", "E">>,
      <<"a", " ", "t", "r", "u", "e">>,
      <<"K", " ", "n", "o">> }

FileEntries == {NoFile, Dir} \cup {File(c) : c \in Contents}

\* Path(target) for an absolute target, self.solution_dir / target otherwise
Resolve(t) ==
    IF StartsWith(t, <<"/">>) THEN [root |-> "abs", name |-> t]
    ELSE [root |-> "sol", name |-> t]

\* the tokens that make output_contains run its target as a shell command
CommandTokens ==
    { <<"c", "a", "t", " ">>, <<"g", "r", "e", "p", " ">>,
      <<"e", "c", "h", "o", " ">>, <<"|", "|">>, <<"&", "&">>, <<"2", ">">> }

LooksLikeCommand(t) == \E tok \in CommandTokens : Contains(t, tok)

TargetStrings ==
    { <<"a">>, <<"/", "b">>, <<"c", "a", "t", " ", "a">>, <<"a", "&", "&", "b">>,
      <<"d", "/", "a">> }

Paths == {Resolve(t) : t \in TargetStrings}

Targets == {PyStr(t) : t \in TargetStrings} \cup {PyInt, PyNone}

Expecteds ==
    { PyStr(<<"t", "r", "u", "e">>), PyStr(<<"T", "R", "U", "E">>),
      PyStr(<<"f", "a", "l", "s", "e">>), PyStr(<<"F", "a", "l", "s", "e">>),
      PyStr(<<"n", "o">>), PyStr(<<>>), PyStr(<<"(">>), PyStr(<<"t", ".", "u">>),
      PyBool(TRUE), PyBool(FALSE), PyInt }

CheckTypes ==
    {"file_exists", "output_contains", "content_contains", "regex_match", "bogus"}

\* subprocess.run(target, shell=True, capture_output=True, text=True, timeout=10)
NoProc == [k |-> "none", out |-> <<>>]
Completed(c) == [k |-> "ok", out |-> c]
TimeoutExpired == [k |-> "timeout", out |-> <<>>]
ProcFailed == [k |-> "error", out |-> <<>>]

\* what the shell can do with a command: print anything (stdout + stderr,
\* whatever the exit code), run past the timeout, or fail to start
ProcOutcomes == {Completed(c) : c \in Contents} \cup {TimeoutExpired, ProcFailed}

-----------------------------------------------------------------------------
(* re.search on the patterns used here: literal characters, "." and "(" *)

\* re.compile(p) raises re.error: an opening parenthesis that is never closed
ReError(p) == Contains(p, <<"(">>) /\ ~Contains(p, <<")">>)

\* the pattern matches s at offset i ("." is any character but a newline;
\* no content here holds a newline)
ReMatchAt(p, s, i) == \A j \in 1..Len(p) : p[j] = "." \/ p[j] = s[i + j]

\* bool(re.search(p, s))
ReSearch(p, s) == \E i \in 0..(Len(s) - Len(p)) : ReMatchAt(p, s, i)

-----------------------------------------------------------------------------
(* SolutionVerifier._execute_check *)

\* an optional string: content = None, or content = <str>
None == [some |-> FALSE, v |-> <<>>]
Some(s) == [some |-> TRUE, v |-> s]

\* the mutant that runs a command-like target for every check type
RunsCommandAnyType(check_type, target) ==
    /\ Subscriptable(target)
    /\ LooksLikeCommand(target.v)

\* the command of an output_contains check is run
RunsCommand(check_type, target) ==
    /\ check_type = "output_contains"
    /\ Subscriptable(target)
    /\ LooksLikeCommand(target.v)

\* the file_exists mutant that compares without lower()
FileExistsPassesCaseSensitive(exists, expected) == StrBool(exists) = expected

\* line 145: str(exists).lower() == expected.lower()
FileExistsPasses(exists, expected) == Lower(StrBool(exists)) = Lower(expected)

\* _execute_check(check_type, target, expected) over the files `files`, where
\* `run` is what subprocess.run does if it is called.  The result has
\* raised = TRUE when the call ends with an exception instead of a return.
_execute_check(check_type, target, expected, files, run) ==
    IF ~Subscriptable(target)
    THEN \* line 129, outside the try: target[:20]
         [raised |-> TRUE, exc |-> "TypeError", name |-> <<check_type, <<>>>>,
          passed |-> FALSE, required |-> FALSE, message |-> ""]
    ELSE
    LET t == target.v
        entry == files[Resolve(t)]
        exists == entry.kind # "none"
        result == [raised |-> FALSE, exc |-> "none",
                   name |-> <<check_type, Prefix(t, 20)>>,
                   passed |-> FALSE, required |-> FALSE, message |-> ""]
        Msg(m) == [result EXCEPT !.message = m]
        Set(b, m) == [result EXCEPT !.passed = b, !.message = m]
        \* except Exception as e (line 214): passed keeps its value, False
        Caught == Msg("Error")
    IN  CASE check_type = "file_exists" ->
               IF expected.ty # "str" THEN Caught  \* expected.lower()
               ELSE Set(FileExistsPasses(exists, expected.v), "File exists")
          [] check_type = "output_contains" ->
               LET fromCommand ==
                       IF RunsCommand(check_type, target) /\ run.k = "ok"
                       THEN Some(run.out) ELSE None
                   content ==
                       IF fromCommand.some THEN fromCommand
                       ELSE IF exists THEN Some(entry.content) ELSE None
               IN  IF ~fromCommand.some /\ entry.kind = "dir"
                   THEN Caught  \* read_text() of a directory
                   ELSE IF content.some /\ content.v # <<>>  \* if content:
                   THEN IF expected.ty # "str" THEN Caught  \* expected.lower()
                        ELSE Set(Contains(Lower(content.v), Lower(expected.v)),
                                 "found")
                   ELSE Msg("Could not get content from")
          [] check_type = "content_contains" ->
               IF entry.kind = "dir" THEN Caught
               ELSE IF exists
               THEN IF expected.ty # "str" THEN Caught  \* expected in content
                    ELSE Set(Contains(entry.content, expected.v), "Content check")
               ELSE Msg("File not found")
          [] check_type = "regex_match" ->
               IF entry.kind = "dir" THEN Caught
               ELSE IF exists
               THEN IF expected.ty # "str" \/ ReError(expected.v) THEN Caught
                    ELSE Set(ReSearch(expected.v, entry.content), "Regex match")
               ELSE Msg("File not found")
          [] OTHER -> Msg("Unknown check type")

-----------------------------------------------------------------------------
(* Values of the variables while nothing has been assigned to them *)

NoExc == [type |-> "none", at |-> "none"]

NoSummary ==
    [present |-> FALSE, total |-> 0, passed |-> 0, failed |-> 0,
     score_tenths |-> 0, required_total |-> 0, required_passed |-> 0,
     all_passed |-> FALSE, overall_status |-> "none", details |-> <<>>]

NoArg == [check_type |-> "none", target |-> PyNone, expected |-> PyNone]

NoRet ==
    [raised |-> FALSE, exc |-> "none", name |-> <<"none", <<>>>>,
     passed |-> FALSE, required |-> FALSE, message |-> ""]

NoTask == [difficulty |-> "mapping", canary |-> <<>>, checks |-> <<>>]

\* sys.exit(code), and no exit yet
Exited(code) == [exited |-> TRUE, code |-> code]
NoExit == [exited |-> FALSE, code |-> 0]

NoScore ==
    [present |-> FALSE, total_checks |-> 0, points_earned |-> 0,
     points_total |-> 0, percentage_tenths |-> 0, passed |-> 0, failed |-> 0,
     skipped |-> 0]

NotAnalyzed == [called |-> FALSE, results |-> <<>>]

\* a rate or an average, as the quotient num / den
Quotient(num, den) == [num |-> num, den |-> den]

NoReport ==
    [present |-> FALSE, total_tasks |-> 0, successful_tasks |-> 0,
     failed_tasks |-> 0, success_rate |-> Quotient(0, 1),
     average_duration |-> Quotient(0, 1), by_difficulty |-> <<>>,
     recommendations |-> <<>>]

\* main() of verify_solution.py was not started
NoCli ==
    [pc |-> "idle", yaml |-> TRUE, argv |-> TRUE, task_dir |-> TRUE,
     task_file |-> TRUE, solution_dir |-> TRUE, made |-> FALSE]

CliIdle ==
    /\ cli = NoCli
    /\ cli_exit = NoExit
    /\ history = <<>>

\* the state of the publisher while another program is the one running
PublishIdle ==
    /\ output_dir = {}
    /\ pub_pc = "idle"
    /\ new_tasks = <<>>
    /\ task_k = 0
    /\ commits = <<>>
    /\ cycle = 0

\* the state of SecurityVerifier while another program is the one running
AuditIdle ==
    /\ base_files = <<>>
    /\ checks = <<>>
    /\ outcomes = <<>>
    /\ score = NoScore
    /\ exit_code = NoExit
    /\ audit_pc = "idle"
    /\ audit_exc = "none"

\* the state of the orchestrator while another program is the one running
BenchIdle ==
    /\ api_key = FALSE
    /\ bench_pc = "idle"
    /\ loop_i = 0
    /\ generated = <<>>
    /\ generate_returns = <<>>
    /\ batch_dirs = {}
    /\ tasks_generated = 0
    /\ evaluated = <<>>
    /\ all_results = <<>>
    /\ analyzed = NotAnalyzed
    /\ bench_exit = NoExit
    /\ bench_exc = "none"
    /\ report = NoReport

-----------------------------------------------------------------------------
(* One call of _execute_check on every bounded input *)

\* only the entry at the resolved target can matter to one call
FilesWith(target, e) ==
    [p \in Paths |->
        IF Subscriptable(target) /\ p = Resolve(target.v) THEN e ELSE NoFile]

InitCheck ==
    /\ arg \in [check_type : CheckTypes, target : Targets, expected : Expecteds]
    /\ \E e \in FileEntries : fs = FilesWith(arg.target, e)
    /\ task_yaml = NoTask
    /\ results = <<>>
    /\ pc = "call"
    /\ idx = 0
    /\ exc = NoExc
    /\ summary = NoSummary
    /\ proc = NoProc
    /\ ret = NoRet
    /\ scanned = <<>>
    /\ CliIdle
    /\ AuditIdle
    /\ BenchIdle
    /\ PublishIdle

ExecuteCheck ==
    /\ pc = "call"
    /\ \E run \in (IF RunsCommand(arg.check_type, arg.target)
                   THEN ProcOutcomes ELSE {NoProc}) :
         /\ proc' = run
         /\ ret' = _execute_check(arg.check_type, arg.target, arg.expected, fs, run)
    /\ pc' = IF ret'.raised THEN "raised" ELSE "returned"
    /\ exc' = IF ret'.raised THEN [type |-> ret'.exc, at |-> "_execute_check"]
              ELSE NoExc
    /\ UNCHANGED <<task_yaml, fs, results, idx, summary, arg>>
    /\ UNCHANGED <<scanned, cliVars, auditVars, benchVars, publishVars>>

NextCheck == ExecuteCheck

SpecCheck == InitCheck /\ [][NextCheck]_vars

-----------------------------------------------------------------------------
(* SolutionVerifier._calculate_score *)

\* the pass mark of overall_status, in percent
PassThreshold == 70

\* sum(1 for r in rs if r['passed'])
CountPassed(rs) == Cardinality({i \in 1..Len(rs) : rs[i].passed})

\* sum(1 for r in rs if r.get('required', False))
CountRequired(rs) == Cardinality({i \in 1..Len(rs) : rs[i].required})

\* sum(1 for r in rs if r.get('required', False) and r['passed'])
CountRequiredPassed(rs) ==
    Cardinality({i \in 1..Len(rs) : rs[i].required /\ rs[i].passed})

\* the mutant that scores an empty outcome list 100
AutoScoreAtLeastEmptyFull(passed, total, pct) ==
    IF total > 0 THEN passed * 100 >= pct * total ELSE 100 >= pct

\* the mutant that passes only above the mark
AutoScoreAtLeastStrict(passed, total, pct) ==
    IF total > 0 THEN passed * 100 > pct * total ELSE 0 > pct

\* auto_score >= pct, where auto_score = (passed / total * 100) if total > 0
\* else 0.  The float quotient is on the same side of pct as the exact one
\* for every total a run can have (the nearest other quotient is 1/(10*total)
\* away, the float error is below 1e-13).
AutoScoreAtLeast(passed, total, pct) ==
    IF total > 0 THEN passed * 100 >= pct * total ELSE 0 >= pct

\* the mutant that truncates instead of rounding
Round1Truncating(passed, total) ==
    IF total = 0 THEN {0} ELSE {(1000 * passed) \div total}

\* round(auto_score, 1), in tenths of a percent.  Away from a tie this is the
\* nearest tenth.  At a tie (auto_score = x.x5 exactly) the float round-off of
\* passed / total * 100 decides: 23/80 gives 28.7 and 49/80 gives 61.3, so a
\* tie yields either neighbour.
Round1(passed, total) ==
    IF total = 0 THEN {0}
    ELSE LET q == (1000 * passed) \div total
             r == (1000 * passed) % total
         IN  IF 2 * r < total THEN {q}
             ELSE IF 2 * r > total THEN {q + 1}
             ELSE {q, q + 1}

\* all_required_passed
AllRequiredPassed(required_passed, required_total) ==
    IF required_total > 0 THEN required_passed = required_total ELSE TRUE

\* the summaries _calculate_score can return for self.results = rs
_calculate_score(rs) ==
    LET total == Len(rs)
        passed == CountPassed(rs)
        required_total == CountRequired(rs)
        required_passed == CountRequiredPassed(rs)
        all_required_passed == AllRequiredPassed(required_passed, required_total)
    IN  { [present |-> TRUE,
           total |-> total,
           passed |-> passed,
           failed |-> total - passed,
           score_tenths |-> st,
           required_total |-> required_total,
           required_passed |-> required_passed,
           all_passed |-> all_required_passed,
           overall_status |->
               IF AutoScoreAtLeast(passed, total, PassThreshold)
                  /\ all_required_passed
               THEN "PASS" ELSE "FAIL",
           details |-> rs] : st \in Round1(passed, total) }

\* self.task_yaml.get('difficulty', {}).get('level', 'unknown') raises
\* AttributeError when difficulty is a plain string
DifficultyLookupRaises(ty) == ty.difficulty = "string"

CalculateScore ==
    /\ pc = "score"
    /\ IF DifficultyLookupRaises(task_yaml)
       THEN /\ pc' = "raised"
            /\ exc' = [type |-> "AttributeError", at |-> "_calculate_score"]
            /\ UNCHANGED summary
       ELSE /\ pc' = "done"
            /\ summary' \in _calculate_score(results)
            /\ UNCHANGED exc
    /\ UNCHANGED <<task_yaml, fs, results, idx, arg, proc, ret>>
    /\ UNCHANGED <<scanned, cliVars, auditVars, benchVars, publishVars>>

-----------------------------------------------------------------------------
(* _calculate_score on every bounded outcome list *)

\* a CheckOutcome as self.results holds it
Outcome(name, passed, required, message) ==
    [name |-> name, passed |-> passed, required |-> required, message |-> message]

AnyOutcome(passed, required) == Outcome(<<"check", <<>>>>, passed, required, "")

OutcomeKinds == {AnyOutcome(p, r) : p \in BOOLEAN, r \in BOOLEAN}

\* every outcome list of at most MaxOutcomes entries
ShortOutcomeLists ==
    UNION {[1..n -> OutcomeKinds] : n \in 0..MaxOutcomes}

\* p passed then f failed outcomes, none of them required
LongOutcomeList(p, f) == [i \in 1..(p + f) |-> AnyOutcome(i <= p, FALSE)]

InitScore ==
    /\ \/ /\ results \in ShortOutcomeLists
          /\ task_yaml \in {[NoTask EXCEPT !.difficulty = d] :
                              d \in {"absent", "mapping", "string"}}
       \/ /\ \E p \in 0..MaxPassed, f \in 0..MaxFailed :
                results = LongOutcomeList(p, f)
          /\ task_yaml = NoTask
    /\ fs = [p \in Paths |-> NoFile]
    /\ pc = "score"
    /\ idx = 0
    /\ exc = NoExc
    /\ summary = NoSummary
    /\ arg = NoArg
    /\ proc = NoProc
    /\ ret = NoRet
    /\ scanned = <<>>
    /\ CliIdle
    /\ AuditIdle
    /\ BenchIdle
    /\ PublishIdle

NextScore == CalculateScore

SpecScore == InitScore /\ [][NextScore]_vars

-----------------------------------------------------------------------------
(* SolutionVerifier.verify *)

\* one entry of verification.automated_checks
Descriptor(check_type, target, expected, required) ==
    [check_type |-> check_type, target |-> target, expected |-> expected,
     required |-> required]

\* the descriptors of the task descriptors of a run: a passing and a failing
\* file check, a required one, a command, a malformed regex, a target that
\* YAML loads as an integer, an unknown check type
RunDescriptors ==
    { Descriptor("file_exists", PyStr(<<"a">>), PyStr(<<"t", "r", "u", "e">>), FALSE),
      Descriptor("file_exists", PyStr(<<"a">>), PyStr(<<"f", "a", "l", "s", "e">>), TRUE),
      Descriptor("output_contains", PyStr(<<"c", "a", "t", " ", "a">>),
                 PyStr(<<"t", "r", "u", "e">>), FALSE),
      Descriptor("regex_match", PyStr(<<"a">>), PyStr(<<"(">>), FALSE),
      Descriptor("file_exists", PyInt, PyStr(<<"t", "r", "u", "e">>), FALSE),
      Descriptor("bogus", PyStr(<<"a">>), PyStr(<<>>), FALSE) }

\* difficulty is absent, a mapping with a level, or a plain string;
\* anti_memorization.canary_token is absent ('') or the task's token
TaskYamls ==
    [difficulty : {"absent", "mapping", "string"},
     canary : {<<>>, Canary},
     checks : UNION {[1..n -> RunDescriptors] : n \in 0..MaxChecks}]

\* the solution trees of a run: file a is absent, or holds one of two texts
RunFiles ==
    { FilesWith(PyStr(<<"a">>), e) :
        e \in {NoFile, File(<<"a", " ", "t", "r", "u", "e">>),
               File(<<"K", " ", "n", "o">>)} }

Init ==
    /\ task_yaml \in TaskYamls
    /\ fs \in RunFiles
    /\ results = <<>>
    /\ pc = "constructed"
    /\ idx = 0
    /\ exc = NoExc
    /\ summary = NoSummary
    /\ arg = NoArg
    /\ proc = NoProc
    /\ ret = NoRet
    /\ scanned = <<>>
    /\ CliIdle
    /\ AuditIdle
    /\ BenchIdle
    /\ PublishIdle

\* verify(), lines 57-63: the header prints
VerifyBegin ==
    /\ pc = "constructed"
    /\ IF DifficultyLookupRaises(task_yaml)
       THEN /\ pc' = "raised"
            /\ exc' = [type |-> "AttributeError", at |-> "verify"]
       ELSE /\ pc' = "canary"
            /\ UNCHANGED exc
    /\ UNCHANGED <<task_yaml, fs, results, idx, summary, arg, proc, ret>>
    /\ UNCHANGED <<scanned, cliVars, auditVars, benchVars, publishVars>>

\* the paths under the solution root, those in its subdirectories included
SolutionPaths == {p \in Paths : p.root = "sol"}

\* a path in a subdirectory of the solution root
Nested(p) == Contains(p.name, <<"/">>)

\* the paths of the tree `files` that lie under the solution root
SolutionPathsIn(files) == {p \in DOMAIN files : p.root = "sol"}

\* the orders in which solution_dir.rglob('*') can yield the paths
RglobOrders(files) ==
    {o \in [1..Cardinality(SolutionPathsIn(files)) -> SolutionPathsIn(files)] :
        \A j, k \in DOMAIN o : j # k => o[j] # o[k]}

\* the scan that looks at the entries of the solution root only
CanaryFoundTopLevel(files, canary) ==
    \E p \in SolutionPaths :
        /\ ~Nested(p)
        /\ files[p].kind = "file"
        /\ Contains(files[p].content, canary)

\* the scan of solution_dir.rglob('*') finds the token in a regular file
CanaryFound(files, canary) ==
    \E p \in DOMAIN files :
        /\ p.root = "sol"
        /\ files[p].kind = "file"
        /\ Contains(files[p].content, canary)

\* the files the scan reads when rglob yields the paths in `order`: the
\* regular files up to the first one that holds the token (break, line 91)
ScanReads(files, canary, order) ==
    LET IsFile(p) == files[p].kind = "file"
        regular == SelectSeq(order, IsFile)
        hits == {j \in DOMAIN regular : Contains(files[regular[j]].content, canary)}
    IN  IF hits = {} THEN regular
        ELSE SubSeq(regular, 1, CHOOSE j \in hits : \A k \in hits : j <= k)

\* _check_canary_token
CheckCanaryToken ==
    /\ pc = "canary"
    /\ results' =
         IF task_yaml.canary = <<>> THEN results
         ELSE Append(results,
                Outcome(<<"canary_token", <<>>>>,
                        CanaryFound(fs, task_yaml.canary), TRUE,
                        IF CanaryFound(fs, task_yaml.canary)
                        THEN "Canary found" ELSE "Canary NOT FOUND"))
    /\ \E order \in RglobOrders(fs) :
         scanned' = IF task_yaml.canary = <<>> THEN scanned
                    ELSE ScanReads(fs, task_yaml.canary, order)
    /\ pc' = "checks"
    /\ idx' = 1
    /\ UNCHANGED <<task_yaml, fs, exc, summary, arg, proc, ret>>
    /\ UNCHANGED <<cliVars, auditVars, benchVars, publishVars>>

\* _run_automated_checks: one iteration of the loop over the descriptors
RunAutomatedCheck ==
    /\ pc = "checks"
    /\ idx <= Len(task_yaml.checks)
    /\ LET check == task_yaml.checks[idx]
       IN  /\ arg' = [check_type |-> check.check_type, target |-> check.target,
                      expected |-> check.expected]
           /\ \E run \in (IF RunsCommand(check.check_type, check.target)
                          THEN ProcOutcomes ELSE {NoProc}) :
                /\ proc' = run
                /\ ret' = _execute_check(check.check_type, check.target,
                                         check.expected, fs, run)
    /\ IF ret'.raised
       THEN /\ pc' = "raised"
            /\ exc' = [type |-> ret'.exc, at |-> "_execute_check"]
            /\ UNCHANGED <<results, idx>>
       ELSE /\ results' = Append(results,
                            Outcome(ret'.name, ret'.passed, ret'.required,
                                    ret'.message))
            /\ idx' = idx + 1
            /\ UNCHANGED <<pc, exc>>
    /\ UNCHANGED <<task_yaml, fs, summary>>
    /\ UNCHANGED <<scanned, cliVars, auditVars, benchVars, publishVars>>

\* _run_automated_checks returns: no checks defined, or the loop is over
RunAutomatedChecksReturn ==
    /\ pc = "checks"
    /\ idx > Len(task_yaml.checks)
    /\ pc' = "criteria"
    /\ UNCHANGED <<task_yaml, fs, results, idx, exc, summary, arg, proc, ret>>
    /\ UNCHANGED <<scanned, cliVars, auditVars, benchVars, publishVars>>

\* _check_success_criteria: prints only
CheckSuccessCriteria ==
    /\ pc = "criteria"
    /\ pc' = "score"
    /\ UNCHANGED <<task_yaml, fs, results, idx, exc, summary, arg, proc, ret>>
    /\ UNCHANGED <<scanned, cliVars, auditVars, benchVars, publishVars>>

Next ==
    \/ VerifyBegin
    \/ CheckCanaryToken
    \/ RunAutomatedCheck
    \/ RunAutomatedChecksReturn
    \/ CheckSuccessCriteria
    \/ CalculateScore

Spec == Init /\ [][Next]_vars

-----------------------------------------------------------------------------
(* _check_canary_token on every bounded solution tree *)

\* the solution trees: every path under the root is absent, a directory or a
\* regular file; a file at d/a stands in the subdirectory d
CanaryTrees ==
    {f \in [Paths -> FileEntries] : \A p \in Paths \ SolutionPaths : f[p] = NoFile}

InitCanary ==
    /\ task_yaml \in [difficulty : {"mapping"}, canary : {<<>>, Canary},
                      checks : {<<>>}]
    /\ fs \in CanaryTrees
    /\ results = <<>>
    /\ pc = "canary"
    /\ idx = 0
    /\ exc = NoExc
    /\ summary = NoSummary
    /\ arg = NoArg
    /\ proc = NoProc
    /\ ret = NoRet
    /\ scanned = <<>>
    /\ CliIdle
    /\ AuditIdle
    /\ BenchIdle
    /\ PublishIdle

NextCanary == CheckCanaryToken

SpecCanary == InitCanary /\ [][NextCanary]_vars

-----------------------------------------------------------------------------
(* main() of verify_solution.py: runs of the command-line tool *)

\* the runs of main() on one task and one solution path
MaxRuns == 2

\* solution_dir / "verification_results.json"
ResultsFile ==
    [root |-> "sol",
     name |-> <<"v", "e", "r", "i", "f", "i", "c", "a", "t", "i", "o", "n", "_",
                "r", "e", "s", "u", "l", "t", "s", ".", "j", "s", "o", "n">>]

\* the message of the canary outcome, line 101
CanaryMessage(canary, found) ==
    <<"C", "a", "n", "a", "r", "y", " ", "'">> \o Prefix(canary, 30)
    \o <<".", ".", ".", "'", " ">>
    \o (IF found THEN <<"f", "o", "u", "n", "d">>
        ELSE <<"N", "O", "T", " ", "F", "O", "U", "N", "D">>)

\* the text json.dump(results, f, indent=2) writes, as far as the scan of a
\* later run can tell: the message of every outcome in details
RECURSIVE DumpDetails(_, _)
DumpDetails(details, canary) ==
    IF details = <<>> THEN <<>>
    ELSE (IF details[1].name = <<"canary_token", <<>>>>
          THEN CanaryMessage(canary, details[1].passed)
          ELSE <<"{", "}">>)
         \o DumpDetails(Tail(details), canary)

JsonDump(s, canary) == <<"{">> \o DumpDetails(s.details, canary) \o <<"}">>

\* sys.exit(0 if results.get('overall_status') == 'PASS' else 1)
CliExitCode(s) == IF s.overall_status = "PASS" THEN 0 ELSE 1

\* the descriptors lists of the tasks main() is run on
CliCheckLists ==
    {<<>>} \cup {<<d>> : d \in RunDescriptors}

CliTaskYamls ==
    [difficulty : {"mapping", "string"}, canary : {<<>>, Canary},
     checks : CliCheckLists]

\* the solution trees main() is run on: those of a run, with the results
\* file of an earlier run absent
CliFiles == {f @@ (ResultsFile :> NoFile) : f \in RunFiles}

\* main() is started: PyYAML is importable or not, the arguments are given
\* or not, the task directory, its task.yaml and the solution path exist or
\* not (no task.yaml without its directory, no file under a missing path);
\* cli.solution_dir is what the run found, cli.made that it made the directory
InitCli ==
    /\ cli \in [pc : {"start"}, yaml : BOOLEAN, argv : BOOLEAN,
                task_dir : BOOLEAN, task_file : BOOLEAN,
                solution_dir : BOOLEAN, made : {FALSE}]
    /\ cli.task_file => cli.task_dir
    /\ cli_exit = NoExit
    /\ history = <<>>
    /\ task_yaml \in CliTaskYamls
    /\ fs \in CliFiles
    /\ ~cli.solution_dir => \A p \in SolutionPathsIn(fs) : fs[p] = NoFile
    /\ results = <<>>
    /\ pc = "unconstructed"
    /\ idx = 0
    /\ exc = NoExc
    /\ summary = NoSummary
    /\ arg = NoArg
    /\ proc = NoProc
    /\ ret = NoRet
    /\ scanned = <<>>
    /\ AuditIdle
    /\ BenchIdle
    /\ PublishIdle

\* lines 290-319: the checks before verification, the mkdir of a missing
\* solution path, and SolutionVerifier(...), whose _load_task_yaml raises
\* FileNotFoundError without task.yaml
CliStart ==
    /\ cli.pc = "start"
    /\ IF ~cli.yaml \/ ~cli.argv \/ ~cli.task_dir
       THEN /\ cli' = [cli EXCEPT !.pc = "exited"]
            /\ cli_exit' = Exited(1)
            /\ UNCHANGED <<pc, exc>>
       ELSE IF ~cli.task_file
       THEN /\ cli' = [cli EXCEPT !.pc = "exited", !.made = ~cli.solution_dir]
            /\ cli_exit' = Exited(1)
            /\ exc' = [type |-> "FileNotFoundError", at |-> "_load_task_yaml"]
            /\ UNCHANGED pc
       ELSE /\ cli' = [cli EXCEPT !.pc = "verify", !.made = ~cli.solution_dir]
            /\ pc' = "constructed"
            /\ UNCHANGED <<cli_exit, exc>>
    /\ UNCHANGED <<task_yaml, fs, results, idx, summary, arg, proc, ret>>
    /\ UNCHANGED <<scanned, history, auditVars, benchVars, publishVars>>

\* lines 320-342: verify() returned or raised; the results are written to
\* the solution directory (a failed write is reported and ignored) and main()
\* exits
CliFinish ==
    /\ cli.pc = "verify"
    /\ pc \in {"done", "raised"}
    /\ cli' = [cli EXCEPT !.pc = "exited"]
    /\ IF pc = "raised"
       THEN /\ cli_exit' = Exited(1)
            /\ UNCHANGED fs
       ELSE /\ cli_exit' = Exited(CliExitCode(summary))
            /\ \E written \in BOOLEAN :
                 fs' = IF written
                       THEN [fs EXCEPT ![ResultsFile] =
                                File(JsonDump(summary, task_yaml.canary))]
                       ELSE fs
    /\ UNCHANGED <<task_yaml, results, pc, idx, exc, summary, arg, proc, ret>>
    /\ UNCHANGED <<scanned, history, auditVars, benchVars, publishVars>>

\* main() is run again on the same task and the solution tree as it is now
CliRunAgain ==
    /\ cli.pc = "exited"
    /\ Len(history) < MaxRuns - 1
    /\ history' = Append(history, [exit |-> cli_exit, summary |-> summary])
    /\ cli' = [cli EXCEPT !.pc = "start", !.made = FALSE,
                          !.solution_dir = cli.solution_dir \/ cli.made]
    /\ cli_exit' = NoExit
    /\ results' = <<>>
    /\ pc' = "unconstructed"
    /\ idx' = 0
    /\ exc' = NoExc
    /\ summary' = NoSummary
    /\ arg' = NoArg
    /\ proc' = NoProc
    /\ ret' = NoRet
    /\ scanned' = <<>>
    /\ UNCHANGED <<task_yaml, fs>>
    /\ UNCHANGED <<auditVars, benchVars, publishVars>>

NextCli ==
    \/ CliStart
    \/ VerifyBegin
    \/ CheckCanaryToken
    \/ RunAutomatedCheck
    \/ RunAutomatedChecksReturn
    \/ CheckSuccessCriteria
    \/ CalculateScore
    \/ CliFinish
    \/ CliRunAgain

SpecCli == InitCli /\ [][NextCli]_vars

-----------------------------------------------------------------------------
(* verify() called more than once on one SolutionVerifier *)

\* the verify() calls on one instance
MaxCalls == 2

\* the verifier was constructed on one of the tasks of the command line
InitCalls ==
    /\ task_yaml \in CliTaskYamls
    /\ task_yaml.difficulty = "mapping"
    /\ fs \in RunFiles
    /\ results = <<>>
    /\ pc = "constructed"
    /\ idx = 0
    /\ exc = NoExc
    /\ summary = NoSummary
    /\ arg = NoArg
    /\ proc = NoProc
    /\ ret = NoRet
    /\ scanned = <<>>
    /\ CliIdle
    /\ AuditIdle
    /\ BenchIdle
    /\ PublishIdle

\* verify() has returned and is called again on the same instance:
\* self.results is assigned in __init__ only (line 46), so it is kept
VerifyAgain ==
    /\ pc = "done"
    /\ Len(history) < MaxCalls - 1
    /\ history' = Append(history, [exit |-> NoExit, summary |-> summary])
    /\ pc' = "constructed"
    /\ idx' = 0
    /\ summary' = NoSummary
    /\ arg' = NoArg
    /\ proc' = NoProc
    /\ ret' = NoRet
    /\ scanned' = <<>>
    /\ UNCHANGED <<task_yaml, fs, results, exc, cli, cli_exit>>
    /\ UNCHANGED <<auditVars, benchVars, publishVars>>

NextCalls ==
    \/ VerifyBegin
    \/ CheckCanaryToken
    \/ RunAutomatedCheck
    \/ RunAutomatedChecksReturn
    \/ CheckSuccessCriteria
    \/ CalculateScore
    \/ VerifyAgain

SpecCalls == InitCalls /\ [][NextCalls]_vars

-----------------------------------------------------------------------------
(* Claims about _execute_check, checked under SpecCheck *)

TrueStr == <<"t", "r", "u", "e">>
FalseStr == <<"f", "a", "l", "s", "e">>

\* the target of the last call exists
ArgTargetExists == fs[Resolve(arg.target.v)].kind # "none"

\* the failures of a call that leave no room for a pass: a content or regex
\* check of a missing file, a malformed regex, an expected that is no string,
\* a command that could not be started and no file named like it
C1_Failure ==
    \/ /\ arg.check_type \in {"content_contains", "regex_match"}
       /\ Subscriptable(arg.target)
       /\ ~ArgTargetExists
    \/ /\ arg.check_type = "regex_match"
       /\ arg.expected.ty = "str"
       /\ ReError(arg.expected.v)
    \/ /\ arg.check_type \in {"file_exists", "content_contains", "regex_match"}
       /\ arg.expected.ty # "str"
    \/ /\ proc.k = "error"
       /\ ~ArgTargetExists

\* C1: _execute_check never raises, whatever check_type, target and expected
\* are: it returns, and every failure is an outcome with passed = false and a
\* diagnostic message.
C1_ExecuteCheckNeverRaises ==
    pc # "call" =>
        /\ pc = "returned"
        /\ ~ret.raised
        /\ (C1_Failure => ~ret.passed /\ ret.message # "")

\* C6 as claimed: a file_exists check passes iff
\* exists == (expected.lower() == "true"), for every expected string.
C6_PassesIffExistsEqualsExpectedTrue ==
    (pc = "returned" /\ arg.check_type = "file_exists" /\ arg.expected.ty = "str")
    => (ret.passed <=> (ArgTargetExists <=> (Lower(arg.expected.v) = TrueStr)))

\* C6 as amended: a file_exists check passes iff the target (absolute: as
\* is; relative: under the solution root) exists and expected.lower() is
\* "true", or it does not exist and expected.lower() is "false"; with any
\* other expected string it fails whether the target exists or not.
C6_PassesIffExpectedSpellsExistence ==
    (pc = "returned" /\ arg.check_type = "file_exists" /\ arg.expected.ty = "str")
    => (ret.passed <=>
           \/ ArgTargetExists /\ Lower(arg.expected.v) = TrueStr
           \/ ~ArgTargetExists /\ Lower(arg.expected.v) = FalseStr)

\* a file_exists check of a missing target with expected "no" has failed
C6_Witness ==
    /\ pc = "returned"
    /\ arg.check_type = "file_exists"
    /\ arg.expected = PyStr(<<"n", "o">>)
    /\ ~ArgTargetExists
    /\ ~ret.passed

\* the content an output_contains check obtained: the command's output when
\* the target is a shell expression, the target file's text otherwise
ObtainedContent ==
    IF RunsCommand(arg.check_type, arg.target)
    THEN IF proc.k = "ok" THEN Some(proc.out) ELSE None
    ELSE IF fs[Resolve(arg.target.v)].kind = "file"
         THEN Some(fs[Resolve(arg.target.v)].content) ELSE None

\* C9: an output_contains check passes iff expected, case-insensitively, is
\* a substring of the content obtained, also when that content is empty and
\* when expected is the empty string.
C9_PassesIffSubstring ==
    (/\ pc = "returned"
     /\ arg.check_type = "output_contains"
     /\ arg.expected.ty = "str"
     /\ ObtainedContent.some)
    => (ret.passed <=>
            Contains(Lower(ObtainedContent.v), Lower(arg.expected.v)))

\* C10: an output_contains check whose command timed out has failed and
\* reports the timeout; one whose target cannot be read has failed and
\* reports that.
C10_TimeoutFailsAndIsReported ==
    (pc = "returned" /\ arg.check_type = "output_contains")
    => /\ proc.k = "timeout"
            => ~ret.passed /\ ret.message = "Command timed out"
       /\ (proc.k = "none" /\ fs[Resolve(arg.target.v)].kind # "file")
            => /\ ~ret.passed
               /\ ret.message \in {"Could not get content from", "Error"}

-----------------------------------------------------------------------------
(* Claims about _calculate_score, checked under SpecScore *)

\* the passed outcomes of self.results
PassedOutcomes == {i \in 1..Len(results) : results[i].passed}

\* the required outcomes of self.results that failed
FailedRequired == {i \in 1..Len(results) : results[i].required /\ ~results[i].passed}

-----------------------------------------------------------------------------
(* Claims about a verify() run, checked under Spec *)

\* the outcomes that precede those of the automated checks
CanaryOutcomes == IF task_yaml.canary = <<>> THEN 0 ELSE 1

\* verify() is over: it returned or raised
Terminated == pc \in {"done", "raised"}

\* C2: _run_automated_checks appends exactly one outcome per descriptor, in
\* descriptor order, whatever a check does, and the run ends with the score
\* summary.
C2_OneOutcomePerDescriptor ==
    (Terminated /\ idx > 0) =>
        /\ pc = "done"
        /\ summary.present
        /\ Len(results) = CanaryOutcomes + Len(task_yaml.checks)
        /\ \A i \in 1..Len(task_yaml.checks) :
              results[CanaryOutcomes + i].name[1] = task_yaml.checks[i].check_type

\* every target and expected of the descriptor is a string, as documented
DocumentedFormat ==
    \A i \in 1..Len(task_yaml.checks) :
        /\ task_yaml.checks[i].target.ty = "str"
        /\ task_yaml.checks[i].expected.ty = "str"

\* C3: verify() never ends with an exception on a task descriptor of the
\* documented format, whether difficulty is a mapping or a plain string.
C3_VerifyNeverRaises == DocumentedFormat => pc # "raised"

\* C5: a check declared required in the task descriptor that fails forces
\* overall_status = FAIL.
C5_RequiredFailureForcesFail ==
    (/\ pc = "done"
     /\ \E i \in 1..Len(task_yaml.checks) :
            /\ task_yaml.checks[i].required
            /\ ~results[CanaryOutcomes + i].passed)
    => summary.overall_status = "FAIL"

\* C8: a run that produced no outcome reports score 0, all required passed
\* and FAIL.
C8_EmptyNeverPasses ==
    (pc = "done" /\ results = <<>>) =>
        /\ summary.score_tenths = 0
        /\ summary.total = 0
        /\ summary.all_passed
        /\ summary.overall_status = "FAIL"

\* a run with no canary and no automated checks has returned its summary
C8_Witness ==
    /\ pc = "done"
    /\ task_yaml.canary = <<>>
    /\ task_yaml.checks = <<>>
    /\ results = <<>>
    /\ summary.present

-----------------------------------------------------------------------------
(* Claims on content_contains (one call of _execute_check) *)

\* C11: a content_contains check never executes a command, whatever tokens
\* its target contains ('cat ', 'grep ', '&&'): it only reads the resolved
\* file, and it passes iff that file exists and expected is a case-sensitive
\* substring of its content.
C11_ContentContainsOnlyReads ==
    (pc # "call" /\ arg.check_type = "content_contains")
    => /\ proc.k = "none"
       /\ Subscriptable(arg.target) =>
            /\ pc = "returned"
            /\ ret.passed <=>
                 /\ fs[Resolve(arg.target.v)].kind = "file"
                 /\ arg.expected.ty = "str"
                 /\ Contains(fs[Resolve(arg.target.v)].content, arg.expected.v)

\* a content_contains check of target 'cat a' has passed on the file of that
\* name, with no command run
C11_Witness ==
    /\ pc = "returned"
    /\ arg.check_type = "content_contains"
    /\ arg.target = PyStr(<<"c", "a", "t", " ", "a">>)
    /\ arg.expected = PyStr(<<"t", "r", "u", "e">>)
    /\ fs[Resolve(arg.target.v)] = File(<<"a", " ", "t", "r", "u", "e">>)
    /\ proc.k = "none"
    /\ ret.passed

-----------------------------------------------------------------------------
(* Claims on the canary scan, checked under SpecCanary *)

\* the token is in the regular file at p
HoldsCanary(p) ==
    fs[p].kind = "file" /\ Contains(fs[p].content, task_yaml.canary)

-----------------------------------------------------------------------------
(* SecurityVerifier (verification/verify_fixes.py)                         *)
(*                                                                         *)
(* Each regular expression of _define_checks stands as a one-character     *)
(* literal, and a source file as a string over the characters of the       *)
(* patterns that are searched for in it; re.search is computed on them.    *)

\* most pattern characters in one source file
MaxTokens == 2

VulnerabilityCheck(check_id, severity, file_path, vulnerable_pattern, fixed_pattern, points) ==
    [check_id |-> check_id, severity |-> severity, file_path |-> file_path,
     vulnerable_pattern |-> vulnerable_pattern, fixed_pattern |-> fixed_pattern,
     points |-> points]

\* _define_checks: the seven checks, in definition order
DefinedChecks ==
    << VulnerabilityCheck("SQL-001", "critical", "app/routes/users.py",
                          Some(<<"a">>), Some(<<"A">>), 15),
       VulnerabilityCheck("SQL-002", "high", "app/routes/users.py",
                          Some(<<"b">>), Some(<<"B">>), 10),
       VulnerabilityCheck("CRYPTO-001", "critical", "app/utils/crypto.py",
                          Some(<<"c">>), Some(<<"C">>), 20),
       VulnerabilityCheck("CONFIG-001", "high", "config.py",
                          Some(<<"d">>), Some(<<"D">>), 15),
       VulnerabilityCheck("AUTH-001", "critical", "app/routes/auth.py",
                          Some(<<"e">>), Some(<<"E">>), 15),
       VulnerabilityCheck("PATH-001", "high", "app/routes/users.py",
                          Some(<<"g">>), Some(<<"G">>), 10),
       VulnerabilityCheck("DESER-001", "critical", "app/routes/auth.py",
                          Some(<<"h">>), Some(<<"H">>), 15) >>

\* the files the checks name
AuditFilePaths == {DefinedChecks[k].file_path : k \in DOMAIN DefinedChecks}

\* the pattern characters, in the order a file's text holds them
PatternAlphabet ==
    <<"a", "A", "b", "B", "c", "C", "d", "D", "e", "E", "g", "G", "h", "H">>

\* the characters of the patterns searched for in the file at path f
TokensOf(f) ==
    LET SearchedIn(c) ==
            \E k \in DOMAIN DefinedChecks :
                /\ DefinedChecks[k].file_path = f
                /\ \/ DefinedChecks[k].vulnerable_pattern = Some(<<c>>)
                   \/ DefinedChecks[k].fixed_pattern = Some(<<c>>)
    IN  SelectSeq(PatternAlphabet, SearchedIn)

\* the texts of at most MaxTokens of the characters toks, in their order
Texts(toks) ==
    UNION { { [j \in 1..n |-> toks[ix[j]]] :
                ix \in {x \in [1..n -> 1..Len(toks)] :
                          \A j, k \in 1..n : j < k => x[j] < x[k]} } :
            n \in 0..Min(MaxTokens, Len(toks)) }

\* a source file is missing, unreadable (here: a directory) or a text
AuditEntries(f) == {NoFile, Dir} \cup {File(c) : c \in Texts(TokensOf(f))}

\* the trees under base_path
AuditTrees ==
    { ("app/routes/users.py" :> users) @@ ("app/utils/crypto.py" :> crypto)
        @@ ("config.py" :> config) @@ ("app/routes/auth.py" :> auth) :
        users \in AuditEntries("app/routes/users.py"),
        crypto \in AuditEntries("app/utils/crypto.py"),
        config \in AuditEntries("config.py"),
        auth \in AuditEntries("app/routes/auth.py") }

\* _read_file: the text, or None when open() raises FileNotFoundError or
\* IOError
_read_file(files, filepath) ==
    IF files[filepath].kind = "file" THEN Some(files[filepath].content) ELSE None

\* _check_pattern: bool(re.search(pattern, content, re.MULTILINE | re.DOTALL))
_check_pattern(content, pattern) == ReSearch(pattern, content)

CheckOutcome(check, result, message) ==
    [check |-> check, result |-> result, message |-> message]

\* the mutant in which a fix that is found outweighs the vulnerable pattern
VerdictFixWins(has_vulnerability, has_fix) ==
    IF has_fix THEN [result |-> "PASS", message |-> "Fix pattern found"]
    ELSE IF has_vulnerability
    THEN [result |-> "FAIL", message |-> "Vulnerable pattern still present"]
    ELSE [result |-> "PASS", message |-> "Vulnerable pattern removed"]

\* run_check, lines 161-184: the verdict on a file that was read
Verdict(has_vulnerability, has_fix) ==
    IF has_vulnerability /\ ~has_fix
    THEN [result |-> "FAIL", message |-> "Vulnerable pattern still present"]
    ELSE IF has_fix /\ ~has_vulnerability
    THEN [result |-> "PASS", message |-> "Fix pattern found"]
    ELSE IF ~has_vulnerability
    THEN [result |-> "PASS", message |-> "Vulnerable pattern removed"]
    ELSE [result |-> "FAIL", message |-> "Mixed signals"]

\* run_check(check) over the files `files`.  raised = TRUE when the call ends
\* with an exception: re.search(None, content) is a TypeError.
run_check(files, check) ==
    LET content == _read_file(files, check.file_path)
        Returned(o) == [raised |-> FALSE, exc |-> "none", outcome |-> o]
    IN  IF ~content.some
        THEN Returned(CheckOutcome(check, "SKIP", "File not found"))
        ELSE IF ~check.vulnerable_pattern.some
        THEN [raised |-> TRUE, exc |-> "TypeError",
              outcome |-> CheckOutcome(check, "none", "")]
        ELSE LET has_vulnerability ==
                     _check_pattern(content.v, check.vulnerable_pattern.v)
                 \* if check.fixed_pattern: None and '' are both false
                 has_fix ==
                     IF check.fixed_pattern.some /\ check.fixed_pattern.v # <<>>
                     THEN _check_pattern(content.v, check.fixed_pattern.v)
                     ELSE FALSE
                 v == Verdict(has_vulnerability, has_fix)
             IN  Returned(CheckOutcome(check, v.result, v.message))

\* the mutant that leaves the skipped checks out of the outcome list
run_all_checks_unskipped(files, cs) ==
    LET NotSkipped(r) == r.outcome.result # "SKIP"
    IN  SelectSeq([k \in DOMAIN cs |-> run_check(files, cs[k])], NotSkipped)

\* run_all_checks: [self.run_check(check) for check in self.checks]
run_all_checks(files, cs) == [k \in DOMAIN cs |-> run_check(files, cs[k])]

\* sum(o.check.points ...) over the outcomes os whose index is in ks
RECURSIVE SumPoints(_, _)
SumPoints(ps, ks) ==
    IF ks = {} THEN 0
    ELSE LET k == CHOOSE x \in ks : TRUE
         IN  ps[k].points + SumPoints(ps, ks \ {k})

\* line 193: total_points = sum(check.points for check in self.checks)
TotalPoints(cs, os) == SumPoints(cs, DOMAIN cs)

\* the mutant that earns the points of every outcome, whatever its result
calculate_score_of_any_result(cs, os) ==
    { [present |-> TRUE,
       total_checks |-> Len(cs),
       points_earned |-> SumPoints([k \in DOMAIN os |-> os[k].check], DOMAIN os),
       points_total |-> TotalPoints(cs, os),
       percentage_tenths |-> 0,
       passed |-> Cardinality({k \in DOMAIN os : os[k].result = "PASS"}),
       failed |-> Cardinality({k \in DOMAIN os : os[k].result = "FAIL"}),
       skipped |-> Cardinality({k \in DOMAIN os : os[k].result = "SKIP"})] }

\* calculate_score for self.checks = cs and self.outcomes = os; the
\* percentage is in tenths of a percent
calculate_score(cs, os) ==
    LET total_points == TotalPoints(cs, os)
        earned_points ==
            SumPoints([k \in DOMAIN os |-> os[k].check],
                      {k \in DOMAIN os : os[k].result = "PASS"})
        Count(r) == Cardinality({k \in DOMAIN os : os[k].result = r})
    IN  { [present |-> TRUE,
           total_checks |-> Len(cs),
           points_earned |-> earned_points,
           points_total |-> total_points,
           percentage_tenths |-> pt,
           passed |-> Count("PASS"),
           failed |-> Count("FAIL"),
           skipped |-> Count("SKIP")] :
          pt \in (IF total_points > 0 THEN Round1(earned_points, total_points)
                  ELSE {0}) }

\* the mutant that lets every score of 90 percent or more exit with 0
ExitCodeFrom90(percentage_tenths) == IF percentage_tenths < 900 THEN 1 ELSE 0

\* main, lines 291-294: exit 1 if score['percentage'] < 100, else exit 0
ExitCode(percentage_tenths) == IF percentage_tenths < 1000 THEN 1 ELSE 0

\* the state of the verifier programs of generated-datasets while another
\* program is the one running
VerifyIdle ==
    /\ task_yaml = NoTask
    /\ fs = [p \in Paths |-> NoFile]
    /\ results = <<>>
    /\ pc = "idle"
    /\ idx = 0
    /\ exc = NoExc
    /\ summary = NoSummary
    /\ arg = NoArg
    /\ proc = NoProc
    /\ ret = NoRet
    /\ scanned = <<>>
    /\ CliIdle

\* main() has built SecurityVerifier(base_path)
InitAudit ==
    /\ base_files \in AuditTrees
    /\ checks = DefinedChecks
    /\ outcomes = <<>>
    /\ score = NoScore
    /\ exit_code = NoExit
    /\ audit_pc = "run_all_checks"
    /\ audit_exc = "none"
    /\ VerifyIdle
    /\ BenchIdle
    /\ PublishIdle

\* verifier.run_all_checks(): the list is assigned when every run_check has
\* returned
RunAllChecks ==
    /\ audit_pc = "run_all_checks"
    /\ LET rs == run_all_checks(base_files, checks)
       IN  IF \E k \in DOMAIN rs : rs[k].raised
           THEN /\ audit_pc' = "raised"
                /\ audit_exc' =
                     rs[CHOOSE k \in DOMAIN rs :
                          rs[k].raised /\ \A j \in 1..(k - 1) : ~rs[j].raised].exc
                /\ UNCHANGED outcomes
           ELSE /\ outcomes' = [k \in DOMAIN rs |-> rs[k].outcome]
                /\ audit_pc' = "generate_report"
                /\ UNCHANGED audit_exc
    /\ UNCHANGED <<base_files, checks, score, exit_code>>
    /\ UNCHANGED <<verifyVars, cliVars, benchVars, publishVars>>

\* print(verifier.generate_report()): computes a score and formats it
GenerateReport ==
    /\ audit_pc = "generate_report"
    /\ audit_pc' = "calculate_score"
    /\ UNCHANGED <<base_files, checks, outcomes, score, exit_code, audit_exc>>
    /\ UNCHANGED <<verifyVars, cliVars, benchVars, publishVars>>

\* score = verifier.calculate_score()
AuditCalculateScore ==
    /\ audit_pc = "calculate_score"
    /\ score' \in calculate_score(checks, outcomes)
    /\ audit_pc' = "exit"
    /\ UNCHANGED <<base_files, checks, outcomes, exit_code, audit_exc>>
    /\ UNCHANGED <<verifyVars, cliVars, benchVars, publishVars>>

\* sys.exit(1) or sys.exit(0)
AuditExit ==
    /\ audit_pc = "exit"
    /\ exit_code' = Exited(ExitCode(score.percentage_tenths))
    /\ audit_pc' = "exited"
    /\ UNCHANGED <<base_files, checks, outcomes, score, audit_exc>>
    /\ UNCHANGED <<verifyVars, cliVars, benchVars, publishVars>>

NextAudit ==
    \/ RunAllChecks
    \/ GenerateReport
    \/ AuditCalculateScore
    \/ AuditExit

SpecAudit == InitAudit /\ [][NextAudit]_vars

-----------------------------------------------------------------------------
(* SecurityVerifier used more than once: run_all_checks and calculate_score *)
(* are called again while the sources under base_path are edited           *)

\* a source file is missing, holds every fixed pattern searched for in it
\* or, when several checks name it, holds every vulnerable pattern
EditedEntries(f) ==
    LET toks == TokensOf(f)
        IsVulnerable(c) == c = LowerChar(c)
        IsFixed(c) == c # LowerChar(c)
    IN  {NoFile, File(SelectSeq(toks, IsFixed))}
        \cup (IF Len(toks) > 2 THEN {File(SelectSeq(toks, IsVulnerable))} ELSE {})

EditedTrees ==
    { ("app/routes/users.py" :> users) @@ ("app/utils/crypto.py" :> crypto)
        @@ ("config.py" :> config) @@ ("app/routes/auth.py" :> auth) :
        users \in EditedEntries("app/routes/users.py"),
        crypto \in EditedEntries("app/utils/crypto.py"),
        config \in EditedEntries("config.py"),
        auth \in EditedEntries("app/routes/auth.py") }

\* SecurityVerifier(base_path) was constructed
InitVerifier ==
    /\ base_files \in EditedTrees
    /\ checks = DefinedChecks
    /\ outcomes = <<>>
    /\ score = NoScore
    /\ exit_code = NoExit
    /\ audit_pc = "constructed"
    /\ audit_exc = "none"
    /\ VerifyIdle
    /\ BenchIdle
    /\ PublishIdle

\* one source file is edited, added or removed between two calls
EditSource ==
    /\ audit_pc \in {"constructed", "edited", "ran", "scored", "ran again",
                     "scored again"}
    /\ \E f \in AuditFilePaths : \E e \in EditedEntries(f) :
         /\ base_files[f] # e
         /\ base_files' = [base_files EXCEPT ![f] = e]
    /\ audit_pc' = IF outcomes = <<>> THEN "constructed" ELSE "edited"
    /\ UNCHANGED <<checks, outcomes, score, exit_code, audit_exc>>
    /\ UNCHANGED <<verifyVars, cliVars, benchVars, publishVars>>

\* verifier.run_all_checks(), the first time or again
RunAllChecksAgain ==
    /\ audit_pc \in {"constructed", "edited", "ran", "scored", "ran again",
                     "scored again"}
    /\ LET rs == run_all_checks(base_files, checks)
       IN  IF \E k \in DOMAIN rs : rs[k].raised
           THEN /\ audit_pc' = "raised"
                /\ audit_exc' = "TypeError"
                /\ UNCHANGED outcomes
           ELSE /\ outcomes' = [k \in DOMAIN rs |-> rs[k].outcome]
                /\ audit_pc' = IF outcomes = <<>> THEN "ran" ELSE "ran again"
                /\ UNCHANGED audit_exc
    /\ UNCHANGED <<base_files, checks, score, exit_code>>
    /\ UNCHANGED <<verifyVars, cliVars, benchVars, publishVars>>

\* verifier.calculate_score() after a run_all_checks()
CalculateScoreAgain ==
    /\ audit_pc \in {"ran", "scored", "ran again", "scored again"}
    /\ score' \in calculate_score(checks, outcomes)
    /\ audit_pc' = IF audit_pc \in {"ran", "scored"} THEN "scored"
                   ELSE "scored again"
    /\ UNCHANGED <<base_files, checks, outcomes, exit_code, audit_exc>>
    /\ UNCHANGED <<verifyVars, cliVars, benchVars, publishVars>>

NextVerifier ==
    \/ EditSource
    \/ RunAllChecksAgain
    \/ CalculateScoreAgain

SpecVerifier == InitVerifier /\ [][NextVerifier]_vars

-----------------------------------------------------------------------------
(* run_check on a VulnerabilityCheck whose optional patterns may be absent *)

\* the checks handed to run_check: vulnerable_pattern and fixed_pattern are
\* Optional[str] (lines 29-38)
OptionalChecks ==
    { VulnerabilityCheck("X-001", severity, "config.py", vp, fp, 10) :
        severity \in {"critical", "high"},
        vp \in {None, Some(<<"d">>)},
        fp \in {None, Some(<<>>), Some(<<"D">>)} }

\* the file the check names is missing, unreadable, or a text
InitRunCheck ==
    /\ \E e \in AuditEntries("config.py") :
         base_files = [f \in AuditFilePaths |-> IF f = "config.py" THEN e ELSE NoFile]
    /\ \E c \in OptionalChecks : checks = <<c>>
    /\ outcomes = <<>>
    /\ score = NoScore
    /\ exit_code = NoExit
    /\ audit_pc = "run_check"
    /\ audit_exc = "none"
    /\ VerifyIdle
    /\ BenchIdle
    /\ PublishIdle

\* verifier.run_check(check)
RunCheck ==
    /\ audit_pc = "run_check"
    /\ LET r == run_check(base_files, checks[1])
       IN  IF r.raised
           THEN /\ audit_pc' = "raised"
                /\ audit_exc' = r.exc
                /\ UNCHANGED outcomes
           ELSE /\ audit_pc' = "returned"
                /\ outcomes' = <<r.outcome>>
                /\ UNCHANGED audit_exc
    /\ UNCHANGED <<base_files, checks, score, exit_code>>
    /\ UNCHANGED <<verifyVars, cliVars, benchVars, publishVars>>

NextRunCheck == RunCheck

SpecRunCheck == InitRunCheck /\ [][NextRunCheck]_vars

-----------------------------------------------------------------------------
(* Claims on SecurityVerifier, checked under SpecAudit *)

\* run_all_checks has returned
ChecksRan == audit_pc \in {"generate_report", "calculate_score", "exit", "exited"}

\* the file of the k-th check was read
Readable(k) == base_files[checks[k].file_path].kind = "file"

\* the k-th check's pattern is in the text of its file
VulnerableFound(k) ==
    Contains(base_files[checks[k].file_path].content,
             checks[k].vulnerable_pattern.v)
FixFound(k) ==
    Contains(base_files[checks[k].file_path].content, checks[k].fixed_pattern.v)

\* C13: for every check whose file is readable run_check follows the table:
\* vulnerable found and fix not found is FAIL, vulnerable not found and fix
\* found is PASS, neither found is PASS, both found is FAIL; so the verdict
\* is PASS iff the vulnerable pattern is not found.
C13_RunCheckFollowsTable ==
    ChecksRan =>
        \A k \in DOMAIN checks :
            Readable(k) =>
                /\ outcomes[k].result \in {"PASS", "FAIL"}
                /\ (VulnerableFound(k) /\ ~FixFound(k)) => outcomes[k].result = "FAIL"
                /\ (~VulnerableFound(k) /\ FixFound(k)) => outcomes[k].result = "PASS"
                /\ (~VulnerableFound(k) /\ ~FixFound(k)) => outcomes[k].result = "PASS"
                /\ (VulnerableFound(k) /\ FixFound(k)) => outcomes[k].result = "FAIL"
                /\ outcomes[k].result = "PASS" <=> ~VulnerableFound(k)

\* a check whose file holds both patterns has failed, beside one that holds
\* the fix alone and has passed
C13_Witness ==
    /\ ChecksRan
    /\ \E k \in DOMAIN checks :
         Readable(k) /\ VulnerableFound(k) /\ FixFound(k)
         /\ outcomes[k].result = "FAIL"
    /\ \E k \in DOMAIN checks :
         Readable(k) /\ ~VulnerableFound(k) /\ FixFound(k)
         /\ outcomes[k].result = "PASS"

\* the points of the checks that were not skipped
PointsNotSkipped ==
    SumPoints([k \in DOMAIN outcomes |-> outcomes[k].check],
              {k \in DOMAIN outcomes : outcomes[k].result # "SKIP"})

\* C14: in the audit score SKIP does not count against the denominator:
\* points_total, and so the percentage, is computed over the checks that were
\* not skipped, while the number of skipped checks is still reported.
C14_SkipLeavesDenominator ==
    score.present =>
        /\ score.points_total = PointsNotSkipped
        /\ score.percentage_tenths \in
             (IF PointsNotSkipped > 0
              THEN Round1(score.points_earned, PointsNotSkipped) ELSE {0})
        /\ score.skipped =
             Cardinality({k \in DOMAIN outcomes : outcomes[k].result = "SKIP"})

\* C15: for any check whose file is missing run_check returns SKIP without
\* raising, and run_all_checks still returns one outcome per defined check,
\* in definition order.
C15_MissingFileIsSkipped ==
    audit_pc # "run_all_checks" =>
        /\ audit_pc # "raised"
        /\ Len(outcomes) = Len(DefinedChecks)
        /\ \A k \in DOMAIN outcomes :
             /\ outcomes[k].check = DefinedChecks[k]
             /\ base_files[DefinedChecks[k].file_path] = NoFile
                  => outcomes[k].result = "SKIP"

\* app/utils/crypto.py is missing and the others are read: the third of the
\* seven outcomes is the one SKIP
C15_Witness ==
    /\ ChecksRan
    /\ base_files["app/utils/crypto.py"] = NoFile
    /\ \A q \in AuditFilePaths \ {"app/utils/crypto.py"} :
         base_files[q].kind = "file"
    /\ Len(outcomes) = 7
    /\ \A k \in DOMAIN outcomes : outcomes[k].result = "SKIP" <=> k = 3

\* C16: main() exits 0 iff the percentage is exactly 100, that is iff
\* points_earned = points_total with points_total > 0; a FAIL or a SKIP on a
\* check with positive points makes it exit 1.
C16_ExitZeroIffFullScore ==
    exit_code.exited =>
        /\ exit_code.code \in {0, 1}
        /\ exit_code.code = 0 <=> score.percentage_tenths = 1000
        /\ exit_code.code = 0 <=>
             (score.points_earned = score.points_total /\ score.points_total > 0)
        /\ (\E k \in DOMAIN outcomes :
                /\ outcomes[k].result \in {"FAIL", "SKIP"}
                /\ outcomes[k].check.points > 0)
             => exit_code.code = 1

\* main() has exited 1 on a run with a skipped check and no failed one
C16_Witness ==
    /\ exit_code = Exited(1)
    /\ score.failed = 0
    /\ score.skipped > 0
    /\ score.points_earned > 0

-----------------------------------------------------------------------------
(* The benchmark orchestrator (scripts/benchmark_evaluation.py)            *)
(*                                                                         *)
(* The text a collaborator prints stands as what json.loads makes of it:   *)
(* json = FALSE when it raises JSONDecodeError, else the value's type and  *)
(* the fields the orchestrator looks at.                                   *)

\* TASK_COUNT of main()
TASK_COUNT == 10
\* the categories generated from, categories[:2], and the batches evaluated,
\* range(2)
NumBatches == 2
\* most records in the task_results one evaluate invocation prints
MaxRecords == 1

\* an EvaluationRecord the evaluate collaborator prints for a task of a batch
EvaluationRecord(batch, n, success) ==
    [task_id |-> <<batch, n>>, success |-> success]

StdOut(json, ty, status, has_results, task_results) ==
    [json |-> json, ty |-> ty, status |-> status, has_results |-> has_results,
     task_results |-> task_results]

NotJson == StdOut(FALSE, "none", "", FALSE, <<>>)

\* what the generate collaborator can print: no JSON, an object with status
\* success or another status, a JSON array
GenerateStdOuts ==
    { NotJson,
      StdOut(TRUE, "dict", "success", FALSE, <<>>),
      StdOut(TRUE, "dict", "error", FALSE, <<>>),
      StdOut(TRUE, "list", "", FALSE, <<>>) }

\* the task_results lists the evaluate collaborator can print for a batch
RecordLists(batch) ==
    UNION { [1..n -> {EvaluationRecord(batch, m, ok) :
                        m \in 1..MaxRecords, ok \in BOOLEAN}] :
            n \in 0..MaxRecords }

\* what the evaluate collaborator can print: no JSON, an object with or
\* without task_results, a JSON number
EvaluateStdOuts(batch) ==
    { NotJson,
      StdOut(TRUE, "dict", "", FALSE, <<>>),
      StdOut(TRUE, "int", "", FALSE, <<>>) }
    \cup {StdOut(TRUE, "dict", "", TRUE, rs) : rs \in RecordLists(batch)}

\* subprocess.run(cmd, ..., timeout=1800): the process ends with a return
\* code and its output, or subprocess.TimeoutExpired is raised
CommandOutcomes(stdouts) ==
    {[k |-> "timeout", returncode |-> 0, stdout |-> NotJson]}
    \cup [k : {"exit"}, returncode : {0, 1}, stdout : stdouts]

\* run_command: no exception of subprocess.run is handled
run_command(out) ==
    IF out.k = "timeout"
    THEN [raised |-> TRUE, exc |-> "TimeoutExpired", returncode |-> 0,
          stdout |-> NotJson]
    ELSE [raised |-> FALSE, exc |-> "none", returncode |-> out.returncode,
          stdout |-> out.stdout]

\* the mutant that parses the output whatever the return code is
generate_tasks_any_returncode(out) ==
    LET r == run_command(out)
    IN  IF r.raised THEN [raised |-> TRUE, exc |-> r.exc, value |-> FALSE]
        ELSE IF ~r.stdout.json
        THEN [raised |-> FALSE, exc |-> "none", value |-> FALSE]
        ELSE IF r.stdout.ty # "dict"
        THEN [raised |-> TRUE, exc |-> "AttributeError", value |-> FALSE]
        ELSE [raised |-> FALSE, exc |-> "none",
              value |-> (r.stdout.status = "success")]

\* generate_tasks, lines 95-111, when the collaborator does `out`
generate_tasks(out) ==
    LET r == run_command(out)
        Return(b) == [raised |-> FALSE, exc |-> "none", value |-> b]
    IN  IF r.raised THEN [raised |-> TRUE, exc |-> r.exc, value |-> FALSE]
        ELSE IF r.returncode # 0 THEN Return(FALSE)
        ELSE IF ~r.stdout.json THEN Return(FALSE)  \* except json.JSONDecodeError
        ELSE IF r.stdout.ty # "dict"               \* result.get on a list
        THEN [raised |-> TRUE, exc |-> "AttributeError", value |-> FALSE]
        ELSE Return(r.stdout.status = "success")

\* the mutant that gives up on a non-zero return code
evaluate_tasks_zero_returncode(out) ==
    LET r == run_command(out)
    IN  IF r.raised THEN [raised |-> TRUE, exc |-> r.exc, value |-> NotJson]
        ELSE IF r.returncode # 0 \/ ~r.stdout.json
        THEN [raised |-> FALSE, exc |-> "none", value |-> NotJson]
        ELSE [raised |-> FALSE, exc |-> "none", value |-> r.stdout]

\* evaluate_tasks, lines 136-146, when the collaborator does `out`: the
\* parsed output whatever the return code, or None (here: NotJson)
evaluate_tasks(out) ==
    LET r == run_command(out)
    IN  IF r.raised THEN [raised |-> TRUE, exc |-> r.exc, value |-> NotJson]
        ELSE IF ~r.stdout.json
        THEN [raised |-> FALSE, exc |-> "none", value |-> NotJson]
        ELSE [raised |-> FALSE, exc |-> "none", value |-> r.stdout]

-----------------------------------------------------------------------------
(* analyze_results                                                         *)
(*                                                                         *)
(* A float quotient is kept as the pair of its operands and compared with  *)
(* a threshold by cross-multiplication: for the counts reached here the    *)
(* float comparison agrees with it.  Durations are whole seconds, so the   *)
(* round-off of a float sum is not in the model.                           *)

\* longest record list, of every shape, handed to analyze_results
MaxAnalyzed == 3
\* record lists of s successes then f failures of one difficulty:
\* s <= MaxSuccesses, f <= MaxFailures
MaxSuccesses == 9
MaxFailures == 4

Easy == <<"e", "a", "s", "y">>
Hard == <<"h", "a", "r", "d">>
Unknown == <<"u", "n", "k", "n", "o", "w", "n">>

\* result.get(key, default)
Get(result, key, default) ==
    IF key \in DOMAIN result THEN result[key] ELSE default

\* the mutant that files a record under its lower-cased difficulty
DifficultyOfLowered(result) == Lower(Get(result, "difficulty", Unknown))

\* line 160: diff = result.get("difficulty", "unknown")
DifficultyOf(result) == Get(result, "difficulty", Unknown)

\* sum(durations)
RECURSIVE SumSeq(_)
SumSeq(q) == IF q = <<>> THEN 0 ELSE q[1] + SumSeq(Tail(q))

\* the keys of by_difficulty in the order the loop of lines 159-166 inserts
\* them
RECURSIVE BucketKeys(_)
BucketKeys(rs) ==
    IF rs = <<>> THEN <<>>
    ELSE LET before == BucketKeys(SubSeq(rs, 1, Len(rs) - 1))
             diff == DifficultyOf(rs[Len(rs)])
         IN  IF \E j \in DOMAIN before : before[j] = diff THEN before
             ELSE Append(before, diff)

\* by_difficulty[diff] after lines 159-171
BucketStats(rs, diff) ==
    LET InBucket(r) == DifficultyOf(r) = diff
        members == SelectSeq(rs, InBucket)
        total == Len(members)
        success ==
            Cardinality({j \in DOMAIN members : Get(members[j], "success", FALSE)})
        durations ==
            [j \in DOMAIN members |-> Get(members[j], "duration_seconds", 0)]
    IN  [key |-> diff,
         total |-> total,
         success |-> success,
         durations |-> durations,
         success_rate |-> Quotient(success, total),
         avg_duration |-> Quotient(SumSeq(durations), Len(durations))]

\* the mutant whose too-easy threshold is reached at 0.8 itself
RateAboveOrAt(rate, num, den) == rate.num * den >= num * rate.den

\* rate > num / den
RateAbove(rate, num, den) == rate.num * den > num * rate.den

\* rate < num / den
RateBelow(rate, num, den) == rate.num * den < num * rate.den

\* f"{rate:.0%}": the percentage rounded to a whole number, half to even
Percent(rate) ==
    LET q == (100 * rate.num) \div rate.den
        r == (100 * rate.num) % rate.den
    IN  IF 2 * r < rate.den THEN q
        ELSE IF 2 * r > rate.den THEN q + 1
        ELSE IF q % 2 = 0 THEN q ELSE q + 1

Recommendation(kind, percent) == [kind |-> kind, percent |-> percent]

\* lines 178-185: the overall recommendations
OverallRecommendations(rate) ==
    IF RateAbove(rate, 8, 10)
    THEN <<Recommendation("too easy", 0), Recommendation("add traps", 0)>>
    ELSE IF RateBelow(rate, 2, 10)
    THEN <<Recommendation("too hard", 0), Recommendation("simplify", 0)>>
    ELSE <<Recommendation("reasonable", 0)>>

\* lines 188-192: the flags of the buckets, in the order of by_difficulty
RECURSIVE BucketRecommendations(_)
BucketRecommendations(buckets) ==
    IF buckets = <<>> THEN <<>>
    ELSE LET stats == buckets[1]
             rest == BucketRecommendations(Tail(buckets))
         IN  IF Lower(stats.key) = Easy /\ RateBelow(stats.success_rate, 7, 10)
             THEN <<Recommendation("easy too hard", Percent(stats.success_rate))>>
                  \o rest
             ELSE IF Lower(stats.key) = Hard
                     /\ RateAbove(stats.success_rate, 5, 10)
             THEN <<Recommendation("hard too easy", Percent(stats.success_rate))>>
                  \o rest
             ELSE rest

\* analyze_results({"task_results": task_results})
analyze_results(task_results) ==
    LET successful ==
            Cardinality({j \in DOMAIN task_results :
                            Get(task_results[j], "success", FALSE)})
        keys == BucketKeys(task_results)
        by_difficulty == [j \in DOMAIN keys |-> BucketStats(task_results, keys[j])]
        overall_success_rate ==
            IF task_results # <<>> THEN Quotient(successful, Len(task_results))
            ELSE Quotient(0, 1)
        durations ==
            [j \in DOMAIN task_results |->
                Get(task_results[j], "duration_seconds", 0)]
    IN  [present |-> TRUE,
         total_tasks |-> Len(task_results),
         successful_tasks |-> successful,
         failed_tasks |-> Len(task_results) - successful,
         success_rate |-> overall_success_rate,
         average_duration |->
             IF durations # <<>> THEN Quotient(SumSeq(durations), Len(durations))
             ELSE Quotient(0, 1),
         by_difficulty |-> by_difficulty,
         recommendations |->
             OverallRecommendations(overall_success_rate)
             \o BucketRecommendations(by_difficulty)]

\* an EvaluationRecord with a declared difficulty
TaskResult(task_id, difficulty, success, duration_seconds) ==
    [task_id |-> task_id, difficulty |-> difficulty, success |-> success,
     duration_seconds |-> duration_seconds]

\* the difficulties a record declares: easy in two spellings, and hard
Difficulties == {Easy, <<"E", "a", "s", "y">>, Hard}

\* the records: with a declared difficulty, or without that key
AnalyzedRecords ==
    {TaskResult(<<0, 0>>, d, ok, t) : d \in Difficulties, ok \in BOOLEAN, t \in {1, 2}}
    \cup {[task_id |-> <<0, 0>>, success |-> ok, duration_seconds |-> 1] :
            ok \in BOOLEAN}

\* s successes then f failures, all of difficulty d
UniformRecords(d, s, f) ==
    [j \in 1..(s + f) |-> TaskResult(<<0, 0>>, d, j <= s, 1)]

\* analyze_results is called on a record list
InitAnalyze ==
    /\ \/ all_results \in UNION {[1..n -> AnalyzedRecords] : n \in 0..MaxAnalyzed}
       \/ \E d \in {Easy, Hard}, s \in 0..MaxSuccesses, f \in 0..MaxFailures :
            all_results = UniformRecords(d, s, f)
    /\ api_key = TRUE
    /\ bench_pc = "analyze_results"
    /\ loop_i = 0
    /\ generated = <<>>
    /\ generate_returns = <<>>
    /\ batch_dirs = {}
    /\ tasks_generated = 0
    /\ evaluated = <<>>
    /\ analyzed = NotAnalyzed
    /\ bench_exit = NoExit
    /\ bench_exc = "none"
    /\ report = NoReport
    /\ VerifyIdle
    /\ AuditIdle
    /\ PublishIdle

AnalyzeResults ==
    /\ bench_pc = "analyze_results"
    /\ report' = analyze_results(all_results)
    /\ analyzed' = [called |-> TRUE, results |-> all_results]
    /\ bench_pc' = "returned"
    /\ UNCHANGED <<api_key, loop_i, generated, generate_returns, batch_dirs,
                   tasks_generated, evaluated, all_results, bench_exit, bench_exc>>
    /\ UNCHANGED <<verifyVars, cliVars, auditVars, publishVars>>

NextAnalyze == AnalyzeResults

SpecAnalyze == InitAnalyze /\ [][NextAnalyze]_vars

\* main() is started; batch directories of an earlier cycle may be there
InitBench ==
    /\ api_key \in BOOLEAN
    /\ bench_pc = "start"
    /\ loop_i = 0
    /\ generated = <<>>
    /\ generate_returns = <<>>
    /\ batch_dirs \in SUBSET (1..NumBatches)
    /\ tasks_generated = 0
    /\ evaluated = <<>>
    /\ all_results = <<>>
    /\ analyzed = NotAnalyzed
    /\ bench_exit = NoExit
    /\ bench_exc = "none"
    /\ report = NoReport
    /\ VerifyIdle
    /\ AuditIdle
    /\ PublishIdle

\* lines 250-255: without the API key main() exits 1
BenchStart ==
    /\ bench_pc = "start"
    /\ IF ~api_key
       THEN /\ bench_pc' = "exited"
            /\ bench_exit' = Exited(1)
       ELSE /\ bench_pc' = "generate"
            /\ UNCHANGED bench_exit
    /\ UNCHANGED <<api_key, loop_i, generated, generate_returns, batch_dirs,
                   tasks_generated, evaluated, all_results, analyzed, bench_exc>>
    /\ UNCHANGED <<report, verifyVars, cliVars, auditVars, publishVars>>

\* one iteration of the loop of phase 1: generate_tasks makes the batch
\* directory, runs the collaborator and reports
GenerateCategory ==
    /\ bench_pc = "generate"
    /\ loop_i < NumBatches
    /\ \E out \in CommandOutcomes(GenerateStdOuts) :
         LET r == generate_tasks(out)
         IN  /\ generated' = Append(generated, out)
             /\ batch_dirs' = batch_dirs \cup {loop_i + 1}
             /\ IF r.raised
                THEN /\ bench_pc' = "raised"
                     /\ bench_exc' = r.exc
                     /\ UNCHANGED <<loop_i, generate_returns, tasks_generated>>
                ELSE /\ generate_returns' = Append(generate_returns, r.value)
                     /\ tasks_generated' =
                          IF r.value THEN tasks_generated + TASK_COUNT \div 2
                          ELSE tasks_generated
                     /\ loop_i' = loop_i + 1
                     /\ UNCHANGED <<bench_pc, bench_exc>>
    /\ UNCHANGED <<api_key, evaluated, all_results, analyzed, bench_exit>>
    /\ UNCHANGED <<report, verifyVars, cliVars, auditVars, publishVars>>

\* lines 290-292: exit 1 when no category was generated; else phase 2
GenerateDone ==
    /\ bench_pc = "generate"
    /\ loop_i = NumBatches
    /\ IF tasks_generated = 0
       THEN /\ bench_pc' = "exited"
            /\ bench_exit' = Exited(1)
            /\ UNCHANGED loop_i
       ELSE /\ bench_pc' = "evaluate"
            /\ loop_i' = 0
            /\ UNCHANGED bench_exit
    /\ UNCHANGED <<api_key, generated, generate_returns, batch_dirs,
                   tasks_generated, evaluated, all_results, analyzed, bench_exc>>
    /\ UNCHANGED <<report, verifyVars, cliVars, auditVars, publishVars>>

\* one iteration of the loop of phase 2, lines 300-316
EvaluateBatch ==
    /\ bench_pc = "evaluate"
    /\ loop_i < NumBatches
    /\ IF loop_i + 1 \notin batch_dirs
       THEN /\ loop_i' = loop_i + 1  \* continue
            /\ UNCHANGED <<bench_pc, evaluated, all_results, bench_exc>>
       ELSE \E out \in CommandOutcomes(EvaluateStdOuts(loop_i + 1)) :
              LET r == evaluate_tasks(out)
              IN  /\ evaluated' =
                       Append(evaluated, [batch |-> loop_i + 1, out |-> out])
                  /\ IF r.raised
                     THEN /\ bench_pc' = "raised"
                          /\ bench_exc' = r.exc
                          /\ UNCHANGED <<loop_i, all_results>>
                     \* "task_results" in result, for an int
                     ELSE IF r.value.json /\ r.value.ty = "int"
                     THEN /\ bench_pc' = "raised"
                          /\ bench_exc' = "TypeError"
                          /\ UNCHANGED <<loop_i, all_results>>
                     ELSE /\ all_results' =
                               IF r.value.json /\ r.value.has_results
                               THEN all_results \o r.value.task_results
                               ELSE all_results
                          /\ loop_i' = loop_i + 1
                          /\ UNCHANGED <<bench_pc, bench_exc>>
    /\ UNCHANGED <<api_key, generated, generate_returns, batch_dirs,
                   tasks_generated, analyzed, bench_exit>>
    /\ UNCHANGED <<report, verifyVars, cliVars, auditVars, publishVars>>

\* lines 318-321: main() returns when nothing was collected; else phase 3
EvaluateDone ==
    /\ bench_pc = "evaluate"
    /\ loop_i = NumBatches
    /\ IF all_results = <<>>
       THEN /\ bench_pc' = "exited"
            /\ bench_exit' = Exited(0)
       ELSE /\ bench_pc' = "analyze"
            /\ UNCHANGED bench_exit
    /\ UNCHANGED <<api_key, loop_i, generated, generate_returns, batch_dirs,
                   tasks_generated, evaluated, all_results, analyzed, bench_exc>>
    /\ UNCHANGED <<report, verifyVars, cliVars, auditVars, publishVars>>

\* phase 3: analyze_results({"task_results": all_results}), the report is
\* printed and saved, main() returns
AnalyzeAndReport ==
    /\ bench_pc = "analyze"
    /\ analyzed' = [called |-> TRUE, results |-> all_results]
    /\ report' = analyze_results(all_results)
    /\ bench_pc' = "exited"
    /\ bench_exit' = Exited(0)
    /\ UNCHANGED <<api_key, loop_i, generated, generate_returns, batch_dirs,
                   tasks_generated, evaluated, all_results, bench_exc>>
    /\ UNCHANGED <<verifyVars, cliVars, auditVars, publishVars>>

NextBench ==
    \/ BenchStart
    \/ GenerateCategory
    \/ GenerateDone
    \/ EvaluateBatch
    \/ EvaluateDone
    \/ AnalyzeAndReport

SpecBench == InitBench /\ [][NextBench]_vars

-----------------------------------------------------------------------------
(* auto_publish.py: publish cycles                                         *)
(*                                                                         *)
(* A path is the sequence of its components below OUTPUT_DIR.              *)

\* the publish cycles of one run of main()
MaxCycles == 3

UPLOADED_MARKER == ".hf_uploaded"

\* the task directories that the generator can write: a, and a/b nested in it
TaskDirNames == {<<"a">>, <<"a", "b">>}

\* the files a task directory is written with
TaskFiles(d) ==
    {d \o <<"workspace.yaml">>}
    \cup (IF d = <<"a">> THEN {d \o <<"tests", "t.py">>} ELSE {})

Parent(p) == SubSeq(p, 1, Len(p) - 1)

\* path p lies below directory d
Below(d, p) == Len(p) > Len(d) /\ SubSeq(p, 1, Len(d)) = d

\* find_task_dirs: the parents of the files named workspace.yaml
find_task_dirs(files) ==
    {Parent(p) : p \in {q \in files : q[Len(q)] = "workspace.yaml"}}

\* the filter that knows the marker of the task directory itself only
IsUploadedTopLevel(task_dir, p) == p # task_dir \o <<UPLOADED_MARKER>>

\* filepath.is_file() and filepath.name != UPLOADED_MARKER
IsUploaded(task_dir, p) == p[Len(p)] # UPLOADED_MARKER

\* collect_files_for_upload: task_dir.rglob("*") through the filter; the
\* path in the repository is tasks/ followed by the path below OUTPUT_DIR
collect_files_for_upload(files, task_dir) ==
    {p \in files : Below(task_dir, p) /\ IsUploaded(task_dir, p)}

\* (d / UPLOADED_MARKER).exists()
Marked(files, d) == (d \o <<UPLOADED_MARKER>>) \in files

\* the orders in which rglob can yield the directories ds
DirOrders(ds) ==
    {o \in [1..Cardinality(ds) -> ds] : \A j, k \in DOMAIN o : j # k => o[j] # o[k]}

\* what create_commit and touch() do for one task: the commit succeeds and
\* the marker is written, the commit raises, or the commit succeeds and
\* touch() raises
UploadOutcomes == {"uploaded", "commit failed", "touch failed"}

\* main() is started; some task directories are there already
InitPublish ==
    /\ \E ds \in SUBSET TaskDirNames : output_dir = UNION {TaskFiles(d) : d \in ds}
    /\ pub_pc = "start"
    /\ new_tasks = <<>>
    /\ task_k = 0
    /\ commits = <<>>
    /\ cycle = 0
    /\ VerifyIdle
    /\ AuditIdle
    /\ BenchIdle

\* main, lines 119-139: exit 1 without HF_TOKEN, else the loop is entered
PublishStart ==
    /\ pub_pc = "start"
    /\ \E token \in BOOLEAN : pub_pc' = IF token THEN "sleeping" ELSE "exited"
    /\ UNCHANGED <<output_dir, new_tasks, task_k, commits, cycle>>
    /\ UNCHANGED <<verifyVars, cliVars, auditVars, benchVars>>

\* the generator writes a task directory while the publisher runs
NewTaskAppears ==
    /\ pub_pc \in {"sleeping", "uploading"}
    /\ \E d \in TaskDirNames \ find_task_dirs(output_dir) :
         output_dir' = output_dir \cup TaskFiles(d)
    /\ UNCHANGED <<pub_pc, new_tasks, task_k, commits, cycle>>
    /\ UNCHANGED <<verifyVars, cliVars, auditVars, benchVars>>

\* upload_tasks, lines 53-67: a cycle begins; it returns at once when there
\* is no task directory or none without the marker
UploadTasksBegin ==
    /\ pub_pc = "sleeping"
    /\ cycle < MaxCycles
    /\ cycle' = cycle + 1
    /\ LET task_dirs == find_task_dirs(output_dir)
           unmarked == {d \in task_dirs : ~Marked(output_dir, d)}
       IN  IF unmarked = {}
           THEN /\ new_tasks' = <<>>
                /\ task_k' = 0
                /\ UNCHANGED pub_pc
           ELSE /\ new_tasks' \in DirOrders(unmarked)
                /\ task_k' = 1
                /\ pub_pc' = "uploading"
    /\ UNCHANGED <<output_dir, commits>>
    /\ UNCHANGED <<verifyVars, cliVars, auditVars, benchVars>>

\* one iteration of the loop over new_tasks, lines 69-111
UploadTask ==
    /\ pub_pc = "uploading"
    /\ task_k <= Len(new_tasks)
    /\ LET task_dir == new_tasks[task_k]
           file_pairs == collect_files_for_upload(output_dir, task_dir)
       IN  IF file_pairs = {}
           THEN UNCHANGED <<output_dir, commits>>  \* continue
           ELSE \E outcome \in UploadOutcomes :
                  /\ commits' =
                       Append(commits,
                              [task |-> task_dir, files |-> file_pairs,
                               cycle |-> cycle,
                               committed |-> outcome # "commit failed",
                               marked |-> outcome = "uploaded"])
                  /\ output_dir' =
                       IF outcome = "uploaded"
                       THEN output_dir \cup {task_dir \o <<UPLOADED_MARKER>>}
                       ELSE output_dir
    /\ task_k' = task_k + 1
    /\ UNCHANGED <<pub_pc, new_tasks, cycle>>
    /\ UNCHANGED <<verifyVars, cliVars, auditVars, benchVars>>

\* lines 113-114: the loop is over, the status is logged, main() sleeps
UploadTasksEnd ==
    /\ pub_pc = "uploading"
    /\ task_k > Len(new_tasks)
    /\ pub_pc' = "sleeping"
    /\ UNCHANGED <<output_dir, new_tasks, task_k, commits, cycle>>
    /\ UNCHANGED <<verifyVars, cliVars, auditVars, benchVars>>

NextPublish ==
    \/ PublishStart
    \/ NewTaskAppears
    \/ UploadTasksBegin
    \/ UploadTask
    \/ UploadTasksEnd

SpecPublish == InitPublish /\ [][NextPublish]_vars

-----------------------------------------------------------------------------
(* Claims on the orchestrator, checked under SpecBench *)

\* the generation failures of a collaborator that ended: a non-zero exit,
\* output that is no JSON, an object whose status is not success
GenerationFailure(out) ==
    /\ out.k = "exit"
    /\ \/ out.returncode # 0
       \/ ~out.stdout.json
       \/ out.stdout.ty = "dict" /\ out.stdout.status # "success"

\* phase 1 has ended with a return value for every category
GenerationOver == Len(generate_returns) = NumBatches /\ bench_pc # "generate"

\* every generation failure made generate_tasks return False, and main()
\* went on to the categories after it
FailureIsReportedAndPassed ==
    /\ \A c \in DOMAIN generated :
         GenerationFailure(generated[c]) =>
            /\ c \in DOMAIN generate_returns
            /\ ~generate_returns[c]
            /\ bench_pc # "generate" => Len(generated) = NumBatches

C18_FailedCategoryIsNotEvaluated ==
    \A c \in DOMAIN generate_returns :
        ~generate_returns[c] =>
            /\ \A j \in DOMAIN evaluated : evaluated[j].batch # c
            /\ \A j \in DOMAIN all_results : all_results[j].task_id[1] # c
            /\ \A j \in DOMAIN analyzed.results :
                 analyzed.results[j].task_id[1] # c

\* the records of batch b among all_results
RecordsOf(b) ==
    LET FromBatch(r) == r.task_id[1] = b
    IN  SelectSeq(all_results, FromBatch)

\* the j-th invocation of evaluate was dealt with: main() did not stop in it
DealtWith(j) == j < Len(evaluated) \/ bench_pc # "raised"

\* no batch is evaluated twice, and main() ends only after both batches
OnceAndOnwards ==
    /\ \A j, k \in DOMAIN evaluated :
         j # k => evaluated[j].batch # evaluated[k].batch
    /\ (bench_pc = "analyze" \/ bench_exit = Exited(0))
         => {evaluated[j].batch : j \in DOMAIN evaluated} = 1..NumBatches

\* C19 as claimed: a batch whose evaluate exits non-zero or prints no JSON
\* contributes no record, is not retried, and the cycle continues with the
\* other batch.
C19_FailedBatchContributesNothing ==
    /\ OnceAndOnwards
    /\ \A j \in DOMAIN evaluated :
         LET out == evaluated[j].out
         IN  (out.k = "exit" /\ (out.returncode # 0 \/ ~out.stdout.json))
             => DealtWith(j) /\ RecordsOf(evaluated[j].batch) = <<>>

\* C19 as amended: a batch whose evaluate prints no JSON contributes no
\* record, whatever the exit code; a batch whose evaluate prints a JSON
\* object contributes the task_results of that object, also when it exits
\* non-zero; no batch is retried and the cycle continues with the other one.
C19_UnparsableBatchContributesNothing ==
    /\ OnceAndOnwards
    /\ \A j \in DOMAIN evaluated :
         LET out == evaluated[j].out
         IN  /\ (out.k = "exit" /\ ~out.stdout.json)
                  => DealtWith(j) /\ RecordsOf(evaluated[j].batch) = <<>>
             /\ (out.k = "exit" /\ out.stdout.json /\ out.stdout.ty = "dict")
                  => /\ DealtWith(j)
                     /\ RecordsOf(evaluated[j].batch) =
                          IF out.stdout.has_results THEN out.stdout.task_results
                          ELSE <<>>

\* batch 1 exited non-zero with a record in its output, batch 2 printed no
\* JSON: the record of batch 1 alone was analyzed
C19_Witness ==
    /\ Len(evaluated) = NumBatches
    /\ evaluated[1].out.returncode # 0
    /\ evaluated[1].out.stdout.task_results # <<>>
    /\ evaluated[2].out.stdout = NotJson
    /\ analyzed.called
    /\ analyzed.results = evaluated[1].out.stdout.task_results

\* C20: a generate or evaluate invocation that runs past the 1800 s timeout
\* becomes a failure (generate_tasks returns False, evaluate_tasks returns
\* None) and the cycle continues: the timeout never ends main() as an
\* exception.
C20_TimeoutBecomesFailure ==
    /\ bench_exc # "TimeoutExpired"
    /\ \A c \in DOMAIN generated :
         generated[c].k = "timeout" =>
            c \in DOMAIN generate_returns /\ ~generate_returns[c]
    /\ \A j \in DOMAIN evaluated :
         evaluated[j].out.k = "timeout" =>
            DealtWith(j) /\ RecordsOf(evaluated[j].batch) = <<>>

-----------------------------------------------------------------------------
(* Claims on analyze_results, checked under SpecAnalyze *)

\* the record list with the records at positions j and k exchanged
Swapped(rs, j, k) ==
    [m \in DOMAIN rs |-> IF m = j THEN rs[k] ELSE IF m = k THEN rs[j] ELSE rs[m]]

\* two by_difficulty maps hold the same keys and the same value under each
SameMap(a, b) ==
    /\ \A j \in DOMAIN a : \E k \in DOMAIN b : a[j] = b[k]
    /\ \A k \in DOMAIN b : \E j \in DOMAIN a : a[j] = b[k]

\* C21: reordering the input records of analyze_results gives an identical
\* by_difficulty map (same keys, same stored value under every key) and an
\* identical set of recommendations.  Every reordering is a product of
\* exchanges of two records.
C21_ReorderingChangesNothing ==
    report.present =>
        \A j, k \in DOMAIN all_results :
            LET other == analyze_results(Swapped(all_results, j, k))
            IN  /\ SameMap(report.by_difficulty, other.by_difficulty)
                /\ {report.recommendations[m] : m \in DOMAIN report.recommendations}
                   = {other.recommendations[m] : m \in DOMAIN other.recommendations}

\* the difficulty a record declares
Declared(r) == IF "difficulty" \in DOMAIN r THEN r.difficulty ELSE Unknown

\* C22: every record is in exactly one bucket, keyed by its declared
\* difficulty ('unknown' when absent); the bucket totals sum to total_tasks,
\* the bucket success counts sum to successful_tasks, successful_tasks +
\* failed_tasks = total_tasks, and in every bucket 0 <= success <= total with
\* success_rate = success / total.
C22_BucketsPartitionRecords ==
    report.present =>
        LET b == report.by_difficulty
        IN  /\ \A j, k \in DOMAIN b : j # k => b[j].key # b[k].key
            /\ {b[j].key : j \in DOMAIN b}
               = {Declared(all_results[m]) : m \in DOMAIN all_results}
            /\ \A j \in DOMAIN b :
                 /\ b[j].total =
                      Cardinality({m \in DOMAIN all_results :
                                     Declared(all_results[m]) = b[j].key})
                 /\ b[j].success =
                      Cardinality({m \in DOMAIN all_results :
                                     /\ Declared(all_results[m]) = b[j].key
                                     /\ all_results[m].success})
                 /\ 0 <= b[j].success /\ b[j].success <= b[j].total
                 /\ b[j].total > 0
                 /\ b[j].success_rate = Quotient(b[j].success, b[j].total)
            /\ SumSeq([j \in DOMAIN b |-> b[j].total]) = report.total_tasks
            /\ SumSeq([j \in DOMAIN b |-> b[j].success]) = report.successful_tasks
            /\ report.total_tasks = Len(all_results)
            /\ report.successful_tasks + report.failed_tasks = report.total_tasks

\* three records went to three buckets: easy, Easy and unknown
C22_Witness ==
    /\ report.present
    /\ Len(all_results) = 3
    /\ {report.by_difficulty[j].key : j \in DOMAIN report.by_difficulty}
       = {Easy, <<"E", "a", "s", "y">>, Unknown}
    /\ report.successful_tasks = 2

\* the overall recommendations the rules dictate for the rate num / den
DictatedVerdict(num, den) ==
    IF 10 * num > 8 * den
    THEN <<Recommendation("too easy", 0), Recommendation("add traps", 0)>>
    ELSE IF 10 * num < 2 * den
    THEN <<Recommendation("too hard", 0), Recommendation("simplify", 0)>>
    ELSE <<Recommendation("reasonable", 0)>>

\* the overall recommendations the rules dictate for the records analyzed
\* (an empty list has rate 0)
OverallVerdict ==
    DictatedVerdict(report.successful_tasks,
                    IF report.total_tasks = 0 THEN 1 ELSE report.total_tasks)

\* the recommendations after the overall ones
Flags ==
    SubSeq(report.recommendations, Len(OverallVerdict) + 1, Len(report.recommendations))

\* the overall recommendations are the dictated ones
VerdictIsDictated ==
    /\ Len(report.recommendations) >= Len(OverallVerdict)
    /\ SubSeq(report.recommendations, 1, Len(OverallVerdict)) = OverallVerdict

\* rates equal to 0.8, 0.2, 0.7 or 0.5 trigger nothing, and 9 successes in 10
\* easy records give too easy and no flag
ScenariosAtThresholds ==
    /\ all_results \in {UniformRecords(Easy, 4, 1), UniformRecords(Hard, 1, 4),
                         UniformRecords(Easy, 7, 3), UniformRecords(Hard, 1, 1)}
         => report.recommendations = <<Recommendation("reasonable", 0)>>
    /\ all_results = UniformRecords(Easy, 9, 1)
         => report.recommendations =
              <<Recommendation("too easy", 0), Recommendation("add traps", 0)>>

\* the buckets under the key diff (one at most)
BucketsKeyed(diff) ==
    {j \in DOMAIN report.by_difficulty : report.by_difficulty[j].key = diff}

FlagsOfKind(kind) == {m \in DOMAIN Flags : Flags[m].kind = kind}

\* C23 as claimed: one overall verdict (too easy iff rate > 0.8, too hard iff
\* rate < 0.2, reasonable otherwise), followed by 'easy tasks too hard' iff
\* the easy bucket's success rate < 0.7 and 'hard tasks too easy' iff the
\* hard bucket's success rate > 0.5; rates equal to a threshold trigger
\* nothing; 9 successes in 10 easy records give too easy and no flag.
C23_FlagsOfEasyAndHardBucket ==
    report.present =>
        /\ VerdictIsDictated
        /\ \A m \in DOMAIN Flags : Flags[m].kind \in {"easy too hard", "hard too easy"}
        /\ Cardinality(FlagsOfKind("easy too hard")) =
             IF \E j \in BucketsKeyed(Easy) :
                    10 * report.by_difficulty[j].success
                        < 7 * report.by_difficulty[j].total
             THEN 1 ELSE 0
        /\ Cardinality(FlagsOfKind("hard too easy")) =
             IF \E j \in BucketsKeyed(Hard) :
                    10 * report.by_difficulty[j].success
                        > 5 * report.by_difficulty[j].total
             THEN 1 ELSE 0
        /\ ScenariosAtThresholds

\* the flag the rules dictate for a bucket, or "none"
DictatedFlag(stats) ==
    IF Lower(stats.key) = Easy /\ 10 * stats.success < 7 * stats.total
    THEN "easy too hard"
    ELSE IF Lower(stats.key) = Hard /\ 10 * stats.success > 5 * stats.total
    THEN "hard too easy"
    ELSE "none"

\* C23 as amended: one overall verdict as claimed, followed by one flag for
\* every bucket whose key, lower-cased, is easy with a rate < 0.7 or is hard
\* with a rate > 0.5, in the order the buckets first appear in the input;
\* rates equal to a threshold trigger nothing; 9 successes in 10 easy records
\* give too easy and no flag.
C23_FlagsOfEveryEasyAndHardBucket ==
    report.present =>
        LET IsFlagged(stats) == DictatedFlag(stats) # "none"
            flagged == SelectSeq(report.by_difficulty, IsFlagged)
        IN  /\ VerdictIsDictated
            /\ Len(Flags) = Len(flagged)
            /\ \A m \in DOMAIN Flags :
                 /\ Flags[m].kind = DictatedFlag(flagged[m])
                 /\ Flags[m].percent = Percent(flagged[m].success_rate)
            /\ ScenariosAtThresholds

\* the buckets Easy and easy are both flagged, after a reasonable verdict
C23_Witness ==
    /\ report.present
    /\ Len(report.by_difficulty) = 2
    /\ \A j \in DOMAIN report.by_difficulty :
         Lower(report.by_difficulty[j].key) = Easy
    /\ report.recommendations[1].kind = "reasonable"
    /\ Len(report.recommendations) = 3

-----------------------------------------------------------------------------
(* Claims about main() of verify_solution.py, checked under SpecCli *)

\* C24: when the task directory, its task.yaml or the solution path does not
\* exist, main() exits with code 1 and gives no PASS verdict; it exits with
\* code 0 only when verification completed with overall_status PASS.
C24_MissingPathIsFatal ==
    cli.pc = "exited" =>
        /\ (~cli.task_dir \/ ~cli.task_file \/ ~cli.solution_dir)
             => /\ cli_exit = Exited(1)
                /\ ~(summary.present /\ summary.overall_status = "PASS")
        /\ cli_exit = Exited(0)
             => /\ pc = "done"
                /\ summary.present
                /\ summary.overall_status = "PASS"

\* the outcomes of the automated checks in a summary, the canary's left out
AutomatedDetails(s) ==
    LET NotCanary(o) == o.name # <<"canary_token", <<>>>>
    IN  SelectSeq(s.details, NotCanary)

\* the canary outcome in a summary (the first entry of details)
CanaryDetail(s) == s.details[1]

\* C26: a second run of main() on the same task and the solution as the first
\* run left it gives the same canary outcome and, the automated checks coming
\* out the same, the same overall_status: the results file the first run
\* wrote does not change the second run.
C26_SecondRunRepeatsFirst ==
    (/\ Len(history) = 1
     /\ cli.pc = "exited"
     /\ summary.present
     /\ history[1].summary.present)
    => LET first == history[1].summary
       IN  /\ task_yaml.canary # <<>>
                => CanaryDetail(summary).passed = CanaryDetail(first).passed
           /\ AutomatedDetails(summary) = AutomatedDetails(first)
                => /\ summary.overall_status = first.overall_status
                   /\ cli_exit = history[1].exit

-----------------------------------------------------------------------------
(* A claim about the type of expected, checked under SpecCheck *)

\* C25: a file_exists check whose expected value YAML loaded as the boolean
\* true or false has the outcome of the same check with the string "true" or
\* "false".
C25_BooleanExpectedIsItsString ==
    (pc # "call" /\ arg.check_type = "file_exists" /\ arg.expected.ty = "bool"
     /\ Subscriptable(arg.target))
    => LET spelled == PyStr(Lower(arg.expected.v))
           other == _execute_check("file_exists", arg.target, spelled, fs, proc)
       IN  /\ ~ret.raised
           /\ ret.passed = other.passed

-----------------------------------------------------------------------------
(* A claim about repeated verify() calls, checked under SpecCalls *)

\* the outcomes the running verify() call has appended itself
OwnOutcomes ==
    LET n == CanaryOutcomes + Len(task_yaml.checks)
    IN  SubSeq(results, Len(results) - n + 1, Len(results))

\* C27: a verify() call scores the outcomes of that call only: called again
\* on the same instance it returns the same total and required counts, the
\* same passed counts when its checks come out the same, and details with one
\* entry per check, the canary's first and the checks in their order.
C27_EachCallScoresItsOwnOutcomes ==
    (pc = "done" /\ Len(history) = 1)
    => LET first == history[1].summary
       IN  /\ summary.total = first.total
           /\ summary.required_total = first.required_total
           /\ OwnOutcomes = first.details
                => /\ summary.passed = first.passed
                   /\ summary.required_passed = first.required_passed
                   /\ summary.overall_status = first.overall_status
           /\ Len(summary.details) = CanaryOutcomes + Len(task_yaml.checks)
           /\ summary.details = OwnOutcomes

-----------------------------------------------------------------------------
(* Claims about SecurityVerifier used as a library *)

\* C28: after run_all_checks, however many times it was called,
\* calculate_score has passed + failed + skipped = total_checks,
\* 0 <= points_earned <= points_total, and points_earned is the sum of the
\* points of the checks with a PASS outcome; run_all_checks replaces the
\* previous outcomes by those of the checks on the sources as they are.
C28_ScoreCountsTheLastRun ==
    /\ audit_pc \in {"scored", "scored again"}
         => /\ score.passed + score.failed + score.skipped = score.total_checks
            /\ score.total_checks = Len(checks)
            /\ 0 <= score.points_earned
            /\ score.points_earned <= score.points_total
            /\ score.points_earned =
                 SumPoints(checks, {k \in DOMAIN outcomes : outcomes[k].result = "PASS"})
    /\ audit_pc \in {"ran", "scored", "edited", "ran again", "scored again"}
         => /\ Len(outcomes) = Len(checks)
            /\ \A k \in DOMAIN outcomes : outcomes[k].check = checks[k]
    /\ audit_pc \in {"ran", "scored", "ran again", "scored again"}
         => \A k \in DOMAIN outcomes :
                outcomes[k] = run_check(base_files, checks[k]).outcome

\* run_all_checks ran again after an edit and the score was calculated over
\* its outcomes: four checks pass, two fail and one is skipped
C28_Witness ==
    /\ audit_pc = "scored again"
    /\ score.passed = 4
    /\ score.failed = 2
    /\ score.skipped = 1
    /\ score.points_earned = 50

\* C29: run_check returns an outcome and does not raise for a check whose
\* optional patterns are absent: an absent fixed_pattern counts as the fix
\* not found, an absent vulnerable_pattern as the vulnerable pattern not found.
C29_AbsentPatternIsNotFound ==
    audit_pc # "run_check" =>
        LET check == checks[1]
            content == _read_file(base_files, check.file_path)
            has_vulnerability ==
                check.vulnerable_pattern.some
                /\ _check_pattern(content.v, check.vulnerable_pattern.v)
            has_fix ==
                check.fixed_pattern.some
                /\ check.fixed_pattern.v # <<>>
                /\ _check_pattern(content.v, check.fixed_pattern.v)
        IN  /\ audit_pc = "returned"
            /\ content.some
                 => outcomes[1].result = Verdict(has_vulnerability, has_fix).result
            /\ ~content.some => outcomes[1].result = "SKIP"

-----------------------------------------------------------------------------
(* A claim about auto_publish.upload_tasks, checked under SpecPublish *)

\* the create_commit calls made for directory d, as positions in commits
CommitsFor(d) == {k \in DOMAIN commits : commits[k].task = d}

\* C30: across the publish cycles, a task directory carries .hf_uploaded only
\* if a create_commit for it succeeded; a marked directory is never committed
\* again; a failed upload leaves the directory unmarked, so that it is among
\* the new tasks of the next cycle, and does not stop the upload of the other
\* new tasks of its cycle; the marker file is never among the uploaded files.
C30_MarkerFollowsCommit ==
    /\ \A d \in TaskDirNames :
         Marked(output_dir, d)
           => \E k \in CommitsFor(d) : commits[k].committed /\ commits[k].marked
    /\ \A j, k \in DOMAIN commits :
         (j < k /\ commits[j].task = commits[k].task) => ~commits[j].marked
    /\ \A k \in DOMAIN commits :
         LET d == commits[k].task
         IN  /\ (\A j \in CommitsFor(d) : ~commits[j].marked)
                  => ~Marked(output_dir, d)
             /\ (/\ ~commits[k].marked
                 /\ commits[k].cycle < cycle
                 /\ pub_pc = "uploading"
                 /\ \A j \in CommitsFor(d) : ~commits[j].marked)
                  => \E m \in DOMAIN new_tasks : new_tasks[m] = d
    /\ pub_pc = "uploading"
         => \A m \in 1..(task_k - 1) :
                \E k \in CommitsFor(new_tasks[m]) : commits[k].cycle = cycle
    /\ \A k \in DOMAIN commits :
         \A p \in commits[k].files : p[Len(p)] # UPLOADED_MARKER

\* the upload of a failed in cycle 1 and the nested a/b was uploaded after it
\* in the same cycle; a was uploaded in cycle 2, the marker of a/b left out
C30_Witness ==
    /\ cycle = 2
    /\ Marked(output_dir, <<"a">>)
    /\ Marked(output_dir, <<"a", "b">>)
    /\ \E j, k, m \in DOMAIN commits :
         /\ j < k /\ k < m
         /\ commits[j].task = <<"a">> /\ ~commits[j].committed
         /\ commits[k].task = <<"a", "b">> /\ commits[k].marked
         /\ commits[k].cycle = 1
         /\ commits[m].task = <<"a">> /\ commits[m].marked
         /\ <<"a", "b", "workspace.yaml">> \in commits[m].files

====
